---- MODULE Spec2Model ----
(***************************************************************************)
(* WebSpec: the compile pipeline of packages/compiler/src/index.ts         *)
(* (compileWebSpec and its helpers) as a state machine.  One compile is a  *)
(* run through the stages of compileWebSpec; the input (spec text and      *)
(* registry) is drawn in Init.                                             *)
(*                                                                         *)
(* Text is modelled as a sequence of atoms.  A path is the sequence of its *)
(* segments, a command is a sequence of word atoms and " " atoms, a glob   *)
(* is a sequence of segment patterns ("*" one segment, "**" any number).   *)
(***************************************************************************)
EXTENDS Integers, Sequences, FiniteSets, TLC

VARIABLES input, pc, spec, manifest, decisionMap, steps, diagnostics, result, prev,
          runtime, tree, cli

vars == <<input, pc, spec, manifest, decisionMap, steps, diagnostics, result, prev,
          runtime, tree, cli>>

(***************************************************************************)
(* Sequence helpers                                                        *)
(***************************************************************************)
Range(s) == {s[i] : i \in 1..Len(s)}

RECURSIVE Concat(_)
Concat(ss) == IF ss = <<>> THEN <<>> ELSE Head(ss) \o Concat(Tail(ss))

RECURSIVE Join(_, _)
Join(ss, sep) ==
  IF ss = <<>> THEN <<>>
  ELSE IF Len(ss) = 1 THEN Head(ss)
  ELSE Head(ss) \o sep \o Join(Tail(ss), sep)

\* String.prototype.includes: sub occurs in s as a contiguous run
Includes(s, sub) ==
  \E i \in 0..(Len(s) - Len(sub)) : SubSeq(s, i + 1, i + Len(sub)) = sub

(***************************************************************************)
(* diag(): every diagnostic of the compiler is built with the default      *)
(* severity "error".  id/id2/text carry what the message interpolates.     *)
(***************************************************************************)
diag(code, id, id2, text) ==
  [code |-> code, severity |-> "error", id |-> id, id2 |-> id2, text |-> text]

(***************************************************************************)
(* render(): "${name...}" first, then "${name}".                           *)
(* A value is [arr |-> BOOLEAN, v |-> sequence of texts]; a string value   *)
(* has arr = FALSE and one element.                                        *)
(***************************************************************************)
SpreadPlaceholder ==
  [x \in {"${components...}", "${app...}"} |->
     IF x = "${components...}" THEN "components" ELSE "app"]

PlainPlaceholder ==
  [x \in {"${app}", "${components}", "${routes}", "${name}", "${cfg}", "${ROUTE_DIR}"} |->
     CASE x = "${app}" -> "app"
       [] x = "${ROUTE_DIR}" -> "ROUTE_DIR"
       [] x = "${components}" -> "components"
       [] x = "${routes}" -> "routes"
       [] x = "${name}" -> "name"
       [] OTHER -> "cfg"]

StrVal(s) == [arr |-> FALSE, v |-> <<s>>]
ArrVal(ss) == [arr |-> TRUE, v |-> ss]

\* String(v ?? ""): an array prints comma-joined
StringOf(vs, k) ==
  IF k \notin DOMAIN vs THEN <<>>
  ELSE IF vs[k].arr THEN Join(vs[k].v, <<",">>) ELSE vs[k].v[1]

SpreadOf(vs, k) ==
  IF k \in DOMAIN vs /\ vs[k].arr THEN Join(vs[k].v, <<" ">>) ELSE StringOf(vs, k)

RECURSIVE renderSpread(_, _)
renderSpread(str, vs) ==
  IF str = <<>> THEN <<>>
  ELSE IF Head(str) \in DOMAIN SpreadPlaceholder
       THEN SpreadOf(vs, SpreadPlaceholder[Head(str)]) \o renderSpread(Tail(str), vs)
       ELSE <<Head(str)>> \o renderSpread(Tail(str), vs)

RECURSIVE renderPlain(_, _)
renderPlain(str, vs) ==
  IF str = <<>> THEN <<>>
  ELSE IF Head(str) \in DOMAIN PlainPlaceholder
       THEN StringOf(vs, PlainPlaceholder[Head(str)]) \o renderPlain(Tail(str), vs)
       ELSE <<Head(str)>> \o renderPlain(Tail(str), vs)

render(str, vs) == renderPlain(renderSpread(str, vs), vs)

(***************************************************************************)
(* picomatch.isMatch on segment sequences                                  *)
(***************************************************************************)
RECURSIVE isMatch(_, _)
isMatch(p, g) ==
  IF g = <<>> THEN p = <<>>
  ELSE IF Head(g) = "**"
       THEN isMatch(p, Tail(g)) \/ (p # <<>> /\ isMatch(Tail(p), g))
       ELSE /\ p # <<>>
            /\ (Head(g) = "*" \/ Head(g) = Head(p))
            /\ isMatch(Tail(p), Tail(g))

someMatch(p, globs) == \E i \in 1..Len(globs) : isMatch(p, globs[i])

(***************************************************************************)
(* Guardrail primitives                                                    *)
(***************************************************************************)
ensureStepHasProofs(step) ==
  IF Len(step.ops) > 0 /\ Len(step.checks) = 0
  THEN <<diag("E400_STEP_NO_ENSURES", step.id, "", <<>>)>>
  ELSE <<>>

\* mutant: the claims obligation is never raised
ensureStepHasClaims_mut(step) == <<>>

ensureStepHasClaims(step) ==
  IF Len(step.ops) > 0 /\ Len(step.claims) = 0
  THEN <<diag("E420_STEP_NO_CLAIMS", step.id, "", <<>>)>>
  ELSE <<>>

inferAllowedWrite(m) ==
  [allowed |-> m.allowedWriteGlobs, denied |-> m.deniedWriteGlobs]

\* mutant: the allowed-glob test runs before the denied-glob test
effectCheckPath_swapped(pathStr, allowedStack, hasSpec, allowedSpec, denied) ==
  IF ~someMatch(pathStr, allowedStack)
  THEN <<diag("E300_WRITE_OUTSIDE", "", "", pathStr)>>
  ELSE IF someMatch(pathStr, denied)
  THEN <<diag("E301_DENIED_PATH", "", "", pathStr)>>
  ELSE IF hasSpec /\ ~someMatch(pathStr, allowedSpec)
  THEN <<diag("E302_SCOPE_VIOLATION", "", "", pathStr)>>
  ELSE <<>>

\* mutant: an empty scope list counts as no scope list
effectCheckPath_emptyOk(pathStr, allowedStack, hasSpec, allowedSpec, denied) ==
  IF someMatch(pathStr, denied)
  THEN <<diag("E301_DENIED_PATH", "", "", pathStr)>>
  ELSE IF ~someMatch(pathStr, allowedStack)
  THEN <<diag("E300_WRITE_OUTSIDE", "", "", pathStr)>>
  ELSE IF hasSpec /\ Len(allowedSpec) > 0 /\ ~someMatch(pathStr, allowedSpec)
  THEN <<diag("E302_SCOPE_VIOLATION", "", "", pathStr)>>
  ELSE <<>>

\* mutant: the spec write scopes are not consulted
effectCheckPath_noScope(pathStr, allowedStack, hasSpec, allowedSpec, denied) ==
  IF someMatch(pathStr, denied)
  THEN <<diag("E301_DENIED_PATH", "", "", pathStr)>>
  ELSE IF ~someMatch(pathStr, allowedStack)
  THEN <<diag("E300_WRITE_OUTSIDE", "", "", pathStr)>>
  ELSE <<>>

\* hasSpec = allowedSpec is not undefined (an empty list is still truthy)
effectCheckPath(pathStr, allowedStack, hasSpec, allowedSpec, denied) ==
  IF someMatch(pathStr, denied)
  THEN <<diag("E301_DENIED_PATH", "", "", pathStr)>>
  ELSE IF ~someMatch(pathStr, allowedStack)
  THEN <<diag("E300_WRITE_OUTSIDE", "", "", pathStr)>>
  ELSE IF hasSpec /\ ~someMatch(pathStr, allowedSpec)
  THEN <<diag("E302_SCOPE_VIOLATION", "", "", pathStr)>>
  ELSE <<>>

RECURSIVE trimStart(_)
trimStart(s) == IF s # <<>> /\ Head(s) = " " THEN trimStart(Tail(s)) ELSE s

RECURSIVE firstToken(_)
firstToken(s) ==
  IF s = <<>> \/ Head(s) = " " THEN <<>> ELSE <<Head(s)>> \o firstToken(Tail(s))

\* cmd.trim().split(/\s+/)[0]
leadingToken(cmd) == firstToken(trimStart(cmd))

RECURSIVE firstDenied(_, _)
firstDenied(cmd, denySubs) ==
  IF denySubs = <<>> THEN <<>>
  ELSE IF Includes(cmd, Head(denySubs)) THEN <<Head(denySubs)>>
  ELSE firstDenied(cmd, Tail(denySubs))

\* mutant: both rules are reported for one command
effectCheckCmd_both(cmd, allowPrefixes, denySubs) ==
  (IF leadingToken(cmd) \notin Range(allowPrefixes)
   THEN <<diag("E310_CMD_NOT_ALLOWED", "", "", leadingToken(cmd))>> ELSE <<>>)
  \o (IF firstDenied(cmd, denySubs) # <<>>
      THEN <<diag("E311_CMD_DENIED_SUBSTRING", "", "", firstDenied(cmd, denySubs)[1])>>
      ELSE <<>>)

\* mutant: the denied substrings are not consulted
effectCheckCmd_noDeny(cmd, allowPrefixes, denySubs) ==
  IF leadingToken(cmd) \notin Range(allowPrefixes)
  THEN <<diag("E310_CMD_NOT_ALLOWED", "", "", leadingToken(cmd))>>
  ELSE <<>>

effectCheckCmd(cmd, allowPrefixes, denySubs) ==
  IF leadingToken(cmd) \notin Range(allowPrefixes)
  THEN <<diag("E310_CMD_NOT_ALLOWED", "", "", leadingToken(cmd))>>
  ELSE IF firstDenied(cmd, denySubs) # <<>>
  THEN <<diag("E311_CMD_DENIED_SUBSTRING", "", "", firstDenied(cmd, denySubs)[1])>>
  ELSE <<>>

IsWriteOp(op) == op.kind \in {"WRITE_FILE", "APPEND_FILE", "WRITE_TEMPLATE"}

(***************************************************************************)
(* Plan builder: ensures -> checks, actions -> ops, macro expansion.       *)
(* An ensure / action is a record with a tag naming the one key it has;    *)
(* a string-valued key that is the empty string is falsy in the source's   *)
(* dispatch.  Results are records [ops / checks, diags, threw].            *)
(***************************************************************************)
DefaultThreshold == 80   \* threshold ?? 0.8, in hundredths

mapEnsureToCheck(e) ==
  IF e.tag = "exists" /\ e.path # <<>>
    THEN [checks |-> <<[kind |-> "file.exists", path |-> e.path]>>, diags |-> <<>>]
  ELSE IF e.tag = "contains"
    THEN [checks |-> <<[kind |-> "file.contains", path |-> e.path, text |-> e.text]>>, diags |-> <<>>]
  ELSE IF e.tag = "routeExists" /\ e.route # <<>>
    THEN [checks |-> <<[kind |-> "route.exists", route |-> e.route]>>, diags |-> <<>>]
  ELSE IF e.tag = "cmdOk" /\ e.cmd # <<>>
    THEN [checks |-> <<[kind |-> "cmd.ok", cmd |-> e.cmd]>>, diags |-> <<>>]
  ELSE IF e.tag = "trackedOnly"
    THEN [checks |-> <<[kind |-> "git.trackedOnly", glob |-> e.glob, allow |-> e.allow]>>, diags |-> <<>>]
  ELSE IF e.tag = "docSection"
    THEN [checks |-> <<[kind |-> "doc.section", path |-> e.path, heading |-> e.heading]>>, diags |-> <<>>]
  ELSE IF e.tag = "docContains"
    THEN [checks |-> <<[kind |-> "doc.contains", path |-> e.path, text |-> e.text]>>, diags |-> <<>>]
  ELSE IF e.tag = "docContainsFuzzy"
    THEN [checks |-> <<[kind |-> "doc.contains_fuzzy", path |-> e.path, text |-> e.text,
                        threshold |-> IF e.hasThreshold THEN e.threshold ELSE DefaultThreshold,
                        gate |-> e.gate]>>,
          diags |-> <<>>]
  ELSE IF e.tag = "artifactExists"
    THEN [checks |-> <<[kind |-> "artifact.exists", path |-> e.path]>>, diags |-> <<>>]
  ELSE [checks |-> <<>>, diags |-> <<diag("E210_UNKNOWN_ENSURE", "", "", <<>>)>>]

\* JSON.stringify of a string or of an array of strings
Quote(s) == <<"\"">> \o s \o <<"\"">>
JSONstringify(val) ==
  IF val.arr
  THEN <<"[">> \o Join([i \in 1..Len(val.v) |-> Quote(val.v[i])], <<",">>) \o <<"]">>
  ELSE Quote(val.v[1])

\* macroArgs: the declared args in declaration order, [name, type]
RECURSIVE normalizeMacroVars(_, _, _)
normalizeMacroVars(args, macroArgs, varsSoFar) ==
  IF macroArgs = <<>> THEN [vars |-> varsSoFar, diags |-> <<>>]
  ELSE
    LET key == Head(macroArgs).name
        typ == Head(macroArgs).type
        missing == key \notin DOMAIN args
        newVal == IF missing THEN StrVal(<<>>)
                  ELSE IF typ = "json" THEN StrVal(JSONstringify(args[key]))
                  ELSE varsSoFar[key]
        nextVars == [k \in DOMAIN varsSoFar \cup {key} |->
                       IF k = key THEN newVal ELSE varsSoFar[k]]
        rest == normalizeMacroVars(args, Tail(macroArgs), nextVars)
    IN [vars |-> rest.vars,
        diags |-> (IF missing THEN <<diag("E201_MISSING_MACRO_ARG", key, "", <<>>)>> ELSE <<>>)
                  \o rest.diags]

\* one expandsTo entry of expandMacro
expandEntry(a, vs) ==
  IF a.kind = "run" THEN <<[kind |-> "RUN", cmd |-> render(a.cmd, vs)]>>
  ELSE IF a.kind = "writeFile"
    THEN <<[kind |-> "WRITE_FILE", path |-> render(a.path, vs), content |-> render(a.content, vs)]>>
  ELSE IF a.kind = "appendFile"
    THEN <<[kind |-> "APPEND_FILE", path |-> render(a.path, vs), content |-> render(a.content, vs)]>>
  ELSE IF a.kind = "writeTemplate"
    THEN <<[kind |-> "WRITE_TEMPLATE", path |-> render(a.path, vs), template |-> a.template]>>
  ELSE <<>>

\* Names every plain object inherits from Object.prototype: obj[name] is a
\* truthy value for them even when name is not an own key.
ObjectPrototypeKeys == {"constructor", "toString"}

\* manifest.macros?.[name] is truthy
macroFound(m, name) ==
  name \in DOMAIN m.macros \/ (m.hasMacros /\ name \in ObjectPrototypeKeys)

expandMacro(name, args, m) ==
  IF ~macroFound(m, name)
  THEN [ops |-> <<>>, diags |-> <<diag("E200_UNKNOWN_MACRO", name, "", <<>>)>>, threw |-> FALSE]
  ELSE IF name \notin DOMAIN m.macros
  \* an inherited member has no expandsTo: macro.expandsTo.map throws a TypeError
  THEN [ops |-> <<>>, diags |-> <<>>, threw |-> TRUE]
  ELSE
    LET macro == m.macros[name]
        nv == normalizeMacroVars(args, macro.args, args)
    IN [ops |-> Concat([i \in 1..Len(macro.expandsTo) |-> expandEntry(macro.expandsTo[i], nv.vars)]),
        diags |-> nv.diags,
        threw |-> FALSE]

mapActionToOps(action, m) ==
  IF action.tag = "run" /\ action.cmd # <<>>
    THEN [ops |-> <<[kind |-> "RUN", cmd |-> action.cmd]>>, diags |-> <<>>, threw |-> FALSE]
  ELSE IF action.tag = "writeFile"
    THEN IF action.template # <<>>
         THEN [ops |-> <<[kind |-> "WRITE_TEMPLATE", path |-> action.path, template |-> action.template]>>,
               diags |-> <<>>, threw |-> FALSE]
         ELSE IF ~action.hasContent
         THEN [ops |-> <<>>, diags |-> <<diag("E220_WRITEFILE_NO_CONTENT", "", "", action.path)>>,
               threw |-> FALSE]
         ELSE [ops |-> <<[kind |-> "WRITE_FILE", path |-> action.path, content |-> action.content]>>,
               diags |-> <<>>, threw |-> FALSE]
  ELSE IF action.tag = "appendFile"
    THEN [ops |-> <<[kind |-> "APPEND_FILE", path |-> action.path, content |-> action.content]>>,
          diags |-> <<>>, threw |-> FALSE]
  ELSE IF action.tag = "writeTemplate"
    THEN [ops |-> <<[kind |-> "WRITE_TEMPLATE", path |-> action.path, template |-> action.template]>>,
          diags |-> <<>>, threw |-> FALSE]
  ELSE IF action.tag = "macro"
    THEN expandMacro(action.name, action.args, m)
  ELSE [ops |-> <<>>, diags |-> <<diag("E211_UNKNOWN_ACTION", "", "", <<>>)>>, threw |-> FALSE]

\* mutant: the ops of the later action come first
buildOneStep_mut(step, m) ==
  LET acts == [i \in 1..Len(step.actions) |->
                 mapActionToOps(step.actions[Len(step.actions) + 1 - i], m)]
      ens  == [i \in 1..Len(step.ensures) |-> mapEnsureToCheck(step.ensures[i])]
  IN [step |-> [id |-> step.id,
                requires |-> step.requires,
                ops |-> Concat([i \in 1..Len(acts) |-> acts[i].ops]),
                checks |-> Concat([i \in 1..Len(ens) |-> ens[i].checks]),
                claims |-> step.claims,
                decisions |-> step.decisions],
      diags |-> Concat([i \in 1..Len(acts) |-> acts[i].diags])
                \o Concat([i \in 1..Len(ens) |-> ens[i].diags]),
      threw |-> \E i \in 1..Len(acts) : acts[i].threw]

\* one iteration of the loop of buildStepsFromSpec: actions first, then ensures
buildOneStep(step, m) ==
  LET acts == [i \in 1..Len(step.actions) |-> mapActionToOps(step.actions[i], m)]
      ens  == [i \in 1..Len(step.ensures) |-> mapEnsureToCheck(step.ensures[i])]
  IN [step |-> [id |-> step.id,
                requires |-> step.requires,
                ops |-> Concat([i \in 1..Len(acts) |-> acts[i].ops]),
                checks |-> Concat([i \in 1..Len(ens) |-> ens[i].checks]),
                claims |-> step.claims,
                decisions |-> step.decisions],
      diags |-> Concat([i \in 1..Len(acts) |-> acts[i].diags])
                \o Concat([i \in 1..Len(ens) |-> ens[i].diags]),
      threw |-> \E i \in 1..Len(acts) : acts[i].threw]

buildStepsFromSpec(sp, m) ==
  LET built == [i \in 1..Len(sp.steps) |-> buildOneStep(sp.steps[i], m)]
  IN [steps |-> [i \in 1..Len(built) |-> built[i].step],
      diags |-> Concat([i \in 1..Len(built) |-> built[i].diags]),
      threw |-> \E i \in 1..Len(built) : built[i].threw]

(***************************************************************************)
(* Validators over the parsed spec and the built steps                     *)
(***************************************************************************)
\* the Map built by the first loop: the last record of an id wins
decisionMapOf(decisions) ==
  [id \in {decisions[i].id : i \in 1..Len(decisions)} |->
     decisions[CHOOSE i \in 1..Len(decisions) :
                 /\ decisions[i].id = id
                 /\ \A j \in 1..Len(decisions) : decisions[j].id = id => j <= i]]

\* mutant: a repeated decision id is not reported
duplicateDiags_mut(decisions) == <<>>

duplicateDiags(decisions) ==
  Concat([i \in 1..Len(decisions) |->
            IF \E j \in 1..(i - 1) : decisions[j].id = decisions[i].id
            THEN <<diag("E413_DECISION_DUPLICATE", decisions[i].id, "", <<>>)>>
            ELSE <<>>])

assumptionDiags(a, dmap) ==
  (IF a.status # "verified"
   THEN <<diag("E410_UNVERIFIED_ASSUMPTION", a.id, "", <<>>)>> ELSE <<>>)
  \o (IF a.id \notin DOMAIN dmap
      THEN <<diag("E411_ASSUMPTION_NO_DECISION", a.id, "", <<>>)>>
      ELSE IF dmap[a.id].status # "final"
      THEN <<diag("E412_ASSUMPTION_DECISION_NOT_FINAL", a.id, "", <<>>)>>
      ELSE <<>>)

validateAssumptionsAndDecisions(sp) ==
  LET dmap == decisionMapOf(sp.decisions)
  IN [map |-> dmap,
      diags |-> duplicateDiags(sp.decisions)
                \o Concat([i \in 1..Len(sp.assumptions) |-> assumptionDiags(sp.assumptions[i], dmap)])]

\* ids of a Set built from a list, in insertion order
RECURSIVE uniqueInOrder(_, _)
uniqueInOrder(ids, seen) ==
  IF ids = <<>> THEN <<>>
  ELSE IF Head(ids) \in seen THEN uniqueInOrder(Tail(ids), seen)
  ELSE <<Head(ids)>> \o uniqueInOrder(Tail(ids), seen \cup {Head(ids)})

\* mutant: an unknown claim is not reported
claimDiags_mut(step, invariantIds) == ensureStepHasClaims(step)

claimDiags(step, invariantIds) ==
  ensureStepHasClaims(step)
  \o Concat([i \in 1..Len(step.claims) |->
               IF step.claims[i] \notin invariantIds
               THEN <<diag("E421_UNKNOWN_CLAIM", step.id, step.claims[i], <<>>)>>
               ELSE <<>>])

\* mutant: E424 is pushed and the claim checks go on
validateClaims_mut(sp, sts, userStepIds) ==
  LET invariantIds == Range(sp.invariants)
      userSteps == SelectSeq(sts, LAMBDA s : s.id \in userStepIds)
      anyUserOps == \E i \in 1..Len(userSteps) : Len(userSteps[i].ops) > 0
      claimed == {c \in invariantIds :
                    \E i \in 1..Len(userSteps) : c \in Range(userSteps[i].claims)}
      order == uniqueInOrder(sp.invariants, {})
  IN (IF sp.lang = "webspec/v0.2" /\ anyUserOps /\ invariantIds = {}
      THEN <<diag("E424_MISSING_INVARIANTS", "", "", <<>>)>> ELSE <<>>)
     \o Concat([i \in 1..Len(userSteps) |-> claimDiags(userSteps[i], invariantIds)])
     \o Concat([i \in 1..Len(order) |->
                  IF order[i] \notin claimed
                  THEN <<diag("E422_UNCLAIMED_INVARIANT", order[i], "", <<>>)>>
                  ELSE <<>>])

validateClaims(sp, sts, userStepIds) ==
  LET invariantIds == Range(sp.invariants)
      userSteps == SelectSeq(sts, LAMBDA s : s.id \in userStepIds)
      anyUserOps == \E i \in 1..Len(userSteps) : Len(userSteps[i].ops) > 0
      claimed == {c \in invariantIds :
                    \E i \in 1..Len(userSteps) : c \in Range(userSteps[i].claims)}
      order == uniqueInOrder(sp.invariants, {})
  IN IF sp.lang = "webspec/v0.2" /\ anyUserOps /\ invariantIds = {}
     THEN <<diag("E424_MISSING_INVARIANTS", "", "", <<>>)>>
     ELSE Concat([i \in 1..Len(userSteps) |-> claimDiags(userSteps[i], invariantIds)])
          \o Concat([i \in 1..Len(order) |->
                       IF order[i] \notin claimed
                       THEN <<diag("E422_UNCLAIMED_INVARIANT", order[i], "", <<>>)>>
                       ELSE <<>>])

stepDecisionDiags(step, dmap) ==
  Concat([i \in 1..Len(step.decisions) |->
            IF step.decisions[i] \notin DOMAIN dmap
            THEN <<diag("E425_STEP_DECISION_MISSING", step.id, step.decisions[i], <<>>)>>
            ELSE IF dmap[step.decisions[i]].status # "final"
            THEN <<diag("E426_STEP_DECISION_NOT_FINAL", step.id, step.decisions[i], <<>>)>>
            ELSE <<>>])

validateStepDecisions(sts, userStepIds, dmap) ==
  Concat([i \in 1..Len(sts) |->
            IF sts[i].id \in userStepIds THEN stepDecisionDiags(sts[i], dmap) ELSE <<>>])

sectionChecks(section) ==
  <<[kind |-> "doc.section", path |-> section.file, heading |-> section.heading]>>
  \o [i \in 1..Len(section.mustContain) |->
        [kind |-> "doc.contains", path |-> section.file, text |-> section.mustContain[i]]]
  \o [i \in 1..Len(section.mustContainFuzzy) |->
        [kind |-> "doc.contains_fuzzy", path |-> section.file,
         text |-> section.mustContainFuzzy[i].text,
         threshold |-> IF section.mustContainFuzzy[i].hasThreshold
                       THEN section.mustContainFuzzy[i].threshold ELSE DefaultThreshold,
         gate |-> section.mustContainFuzzy[i].gate]]

docsAndArtifactsChecks(sp) ==
  [i \in 1..Len(sp.requiredFiles) |-> [kind |-> "file.exists", path |-> sp.requiredFiles[i]]]
  \o Concat([i \in 1..Len(sp.sections) |-> sectionChecks(sp.sections[i])])
  \o [i \in 1..Len(sp.artifacts) |-> [kind |-> "artifact.exists", path |-> sp.artifacts[i].path]]

\* returns the step list with verify_docs_artifacts pushed, or unchanged
appendDocsAndArtifactsChecks(sp, sts) ==
  LET checks == docsAndArtifactsChecks(sp)
  IN IF Len(checks) = 0 THEN sts
     ELSE Append(sts, [id |-> "verify_docs_artifacts",
                       requires |-> IF Len(sts) > 0 THEN <<sts[Len(sts)].id>> ELSE <<>>,
                       ops |-> <<>>,
                       checks |-> checks])

writtenPaths(sts) ==
  UNION {{sts[i].ops[j].path :
            j \in {k \in 1..Len(sts[i].ops) : IsWriteOp(sts[i].ops[k])}} :
         i \in 1..Len(sts)}

\* mutant: one written artifact is taken to cover them all
validateArtifactsWritten_mut(sp, sts) ==
  LET mustWrite == SelectSeq(sp.artifacts, LAMBDA r : r.mustWrite)
      written == writtenPaths(sts)
  IN IF \E i \in 1..Len(mustWrite) : mustWrite[i].path \in written THEN <<>>
     ELSE Concat([i \in 1..Len(mustWrite) |->
                    <<diag("E460_ARTIFACT_NOT_WRITTEN", "", "", mustWrite[i].path)>>])

validateArtifactsWritten(sp, sts) ==
  LET mustWrite == SelectSeq(sp.artifacts, LAMBDA r : r.mustWrite)
      written == writtenPaths(sts)
  IN Concat([i \in 1..Len(mustWrite) |->
               IF mustWrite[i].path \notin written
               THEN <<diag("E460_ARTIFACT_NOT_WRITTEN", "", "", mustWrite[i].path)>>
               ELSE <<>>])

\* the loop "Static effect checks + proof obligations"
opDiags(op, sp, m, denySubs) ==
  IF IsWriteOp(op)
  THEN effectCheckPath(op.path, inferAllowedWrite(m).allowed, sp.hasWriteScopes,
                       sp.writeScopes, inferAllowedWrite(m).denied)
  ELSE IF op.kind = "RUN"
  THEN effectCheckCmd(op.cmd, m.allowPrefixes, denySubs)
  ELSE <<>>

staticEffectChecks(sp, m, sts) ==
  Concat([i \in 1..Len(sts) |->
            Concat([j \in 1..Len(sts[i].ops) |-> opDiags(sts[i].ops[j], sp, m, m.denySubstrings)])
            \o ensureStepHasProofs(sts[i])])

(***************************************************************************)
(* The synthesized v0.1 program (compileWebSpec, the final else branch)    *)
(***************************************************************************)
macroOf(m, name) == m.macros[name]
hasMacro(m, name) == name \in DOMAIN m.macros

AppVars == [k \in {"app"} |-> StrVal(<<"apps", "web">>)]

UiVars(uiComps) ==
  [k \in {"app", "components"} |->
     IF k = "app" THEN StrVal(<<"apps", "web">>) ELSE ArrVal(uiComps)]

RoutesJson(routes) ==
  <<"[">> \o Join([i \in 1..Len(routes) |-> Quote(<<"/">> \o routes[i].path)], <<",">>) \o <<"]">>

RouteVars(routes) ==
  [k \in {"app", "routes"} |->
     IF k = "app" THEN StrVal(<<"apps", "web">>) ELSE StrVal(RoutesJson(routes))]

\* dir = r.path === "/" ? "" : r.path; the route "/" is the empty segment list
RouteDirVars(r) ==
  [k \in {"app", "ROUTE_DIR"} |->
     IF k = "app" THEN StrVal(<<"apps", "web">>) ELSE StrVal(r.path)]

initAiStep(aiDir, keep) ==
  [id |-> "init_ai",
   requires |-> <<>>,
   ops |-> <<[kind |-> "WRITE_FILE", path |-> aiDir \o <<"README.md">>, content |-> <<"# .ai">>],
             [kind |-> "WRITE_FILE", path |-> aiDir \o <<".gitkeep">>, content |-> <<>>],
             [kind |-> "APPEND_FILE", path |-> <<".gitignore">>, content |-> aiDir \o <<"*">>]>>,
   checks |-> <<[kind |-> "file.exists", path |-> aiDir \o <<"README.md">>],
                [kind |-> "git.trackedOnly", glob |-> aiDir \o <<"**">>, allow |-> keep]>>]

\* mutant: the scaffold step carries no check
scaffoldPart_mut(m) ==
  IF ~hasMacro(m, "stack.scaffold")
  THEN [steps |-> <<>>, diags |-> <<diag("E102_MISSING_MACRO", m.id, "stack.scaffold", <<>>)>>]
  ELSE [steps |-> <<[id |-> "scaffold_web",
                     requires |-> <<"init_ai">>,
                     ops |-> Concat([i \in 1..Len(macroOf(m, "stack.scaffold").expandsTo) |->
                                       expandEntry(macroOf(m, "stack.scaffold").expandsTo[i], AppVars)]),
                     checks |-> <<>>]>>,
        diags |-> <<>>]

scaffoldPart(m) ==
  IF ~hasMacro(m, "stack.scaffold")
  THEN [steps |-> <<>>, diags |-> <<diag("E102_MISSING_MACRO", m.id, "stack.scaffold", <<>>)>>]
  ELSE [steps |-> <<[id |-> "scaffold_web",
                     requires |-> <<"init_ai">>,
                     ops |-> Concat([i \in 1..Len(macroOf(m, "stack.scaffold").expandsTo) |->
                                       expandEntry(macroOf(m, "stack.scaffold").expandsTo[i], AppVars)]),
                     checks |-> <<[kind |-> "file.exists",
                                   path |-> <<"apps", "web", "package.json">>]>>]>>,
        diags |-> <<>>]

twEntry(a, vs) ==
  IF a.kind = "run" THEN <<[kind |-> "RUN", cmd |-> render(a.cmd, vs)]>>
  ELSE IF a.kind = "writeFile"
  THEN <<[kind |-> "WRITE_FILE", path |-> render(a.path, vs), content |-> a.content]>>
  ELSE <<>>

\* init.expandsTo.map(a => RUN render(a.cmd)): an entry without cmd makes
\* render throw
runOnly(entries, vs) ==
  [ops |-> Concat([i \in 1..Len(entries) |->
                     IF entries[i].kind = "run"
                     THEN <<[kind |-> "RUN", cmd |-> render(entries[i].cmd, vs)]>> ELSE <<>>]),
   threw |-> \E i \in 1..Len(entries) : entries[i].kind # "run"]

uiPart(sp, m) ==
  LET vs == UiVars(sp.components)
      tw == IF hasMacro(m, "stack.tailwind_v4_vite")
            THEN Concat([i \in 1..Len(macroOf(m, "stack.tailwind_v4_vite").expandsTo) |->
                           twEntry(macroOf(m, "stack.tailwind_v4_vite").expandsTo[i], vs)])
            ELSE <<>>
      init == IF hasMacro(m, "stack.shadcn_init")
              THEN runOnly(macroOf(m, "stack.shadcn_init").expandsTo, vs)
              ELSE [ops |-> <<>>, threw |-> FALSE]
      add == IF hasMacro(m, "stack.shadcn_add") /\ Len(sp.components) > 0
             THEN runOnly(macroOf(m, "stack.shadcn_add").expandsTo, vs)
             ELSE [ops |-> <<>>, threw |-> FALSE]
      ops == tw \o init.ops \o add.ops
  IN [ops |-> ops,
      steps |-> IF Len(ops) > 0
                THEN <<[id |-> "setup_ui", requires |-> <<"scaffold_web">>, ops |-> ops,
                        checks |-> <<[kind |-> "cmd.ok",
                                      cmd |-> <<"pnpm", " ", "-C", " ", "apps", "web", " ", "--version">>]>>]>>
                ELSE <<>>,
      threw |-> init.threw \/ add.threw]

setRoutesEntry(a, routes) ==
  IF a.kind = "writeTemplate"
  THEN <<[kind |-> "WRITE_TEMPLATE", path |-> render(a.path, AppVars), template |-> a.template]>>
  ELSE IF a.kind = "run" THEN <<[kind |-> "RUN", cmd |-> render(a.cmd, RouteVars(routes))]>>
  ELSE <<>>

addRouteOps(entries, r) ==
  Concat([i \in 1..Len(entries) |->
            IF entries[i].kind = "writeTemplate"
            THEN <<[kind |-> "WRITE_TEMPLATE", path |-> render(entries[i].path, RouteDirVars(r)),
                    template |-> entries[i].template]>>
            ELSE <<>>])

routeChecks(routes) ==
  [i \in 1..Len(routes) |-> [kind |-> "route.exists", route |-> routes[i].path]]

routesPart(sp, m, uiOps) ==
  LET req == IF Len(uiOps) > 0 THEN <<"setup_ui">> ELSE <<"scaffold_web">>
  IN IF Len(sp.routes) = 0 THEN [steps |-> <<>>, diags |-> <<>>]
     ELSE IF hasMacro(m, "stack.set_routes")
     THEN [steps |-> <<[id |-> "set_routes", requires |-> req,
                        ops |-> Concat([i \in 1..Len(macroOf(m, "stack.set_routes").expandsTo) |->
                                          setRoutesEntry(macroOf(m, "stack.set_routes").expandsTo[i], sp.routes)]),
                        checks |-> routeChecks(sp.routes)]>>,
           diags |-> <<>>]
     ELSE IF hasMacro(m, "stack.add_route")
     THEN [steps |-> <<[id |-> "add_routes", requires |-> req,
                        ops |-> Concat([i \in 1..Len(sp.routes) |->
                                          addRouteOps(macroOf(m, "stack.add_route").expandsTo, sp.routes[i])]),
                        checks |-> routeChecks(sp.routes)]>>,
           diags |-> <<>>]
     ELSE [steps |-> <<>>, diags |-> <<diag("E102_MISSING_MACRO", m.id, "routing", <<>>)>>]

qualityPart(sp, sts) ==
  IF Len(sp.gates) = 0 THEN <<>>
  ELSE <<[id |-> "quality_gate",
          requires |-> <<sts[Len(sts)].id>>,
          ops |-> [i \in 1..Len(sp.gates) |-> [kind |-> "RUN", cmd |-> sp.gates[i]]],
          checks |-> [i \in 1..Len(sp.gates) |-> [kind |-> "cmd.ok", cmd |-> sp.gates[i]]]]>>

synthesize(sp, m) ==
  LET aiDir == IF sp.hasWorkspace THEN sp.aiDir ELSE <<".ai">>
      keep == IF sp.hasWorkspace THEN sp.keepTracked
              ELSE <<aiDir \o <<"README.md">>, aiDir \o <<".gitkeep">>>>
      sc == scaffoldPart(m)
      ui == uiPart(sp, m)
      rt == routesPart(sp, m, ui.ops)
      upto == <<initAiStep(aiDir, keep)>> \o sc.steps \o ui.steps \o rt.steps
  IN [steps |-> upto \o qualityPart(sp, upto),
      diags |-> sc.diags \o rt.diags,
      threw |-> ui.threw]

(***************************************************************************)
(* Parsing, registry lookup, hashing                                       *)
(***************************************************************************)
\* A source text is [yamlOk, variant, doc]: whether YAML.parse succeeds, a
\* layout variant (two texts of the same document differ in it), and the
\* document YAML.parse yields.
Langs == {"webspec/v0.1", "webspec/v0.2"}

\* mutant: the lang discriminator is not validated
shapeOk_mut(text) == text.yamlOk /\ text.doc.target # ""

\* WebSpecSchema.parse succeeds: the discriminator and the required strings
shapeOk(text) == text.yamlOk /\ text.doc.lang \in Langs /\ text.doc.target # ""

\* WebSpecSchema.parse: the v0.1 object schema drops the keys it does not
\* declare (intent, docs, effects, artifacts, assumptions, decisions)
parseSpec(doc) ==
  IF doc.lang = "webspec/v0.1"
  THEN [doc EXCEPT !.invariants = <<>>, !.requiredFiles = <<>>, !.sections = <<>>,
                   !.hasWriteScopes = FALSE, !.writeScopes = <<>>,
                   !.expansionPolicy = "absent", !.artifacts = <<>>,
                   !.assumptions = <<>>, !.decisions = <<>>]
  ELSE doc

\* input.registry[spec.target]: an own key, else a member inherited from
\* Object.prototype, else undefined
Inherited == [kind |-> "function"]
Undefined == [kind |-> "undefined"]

registryGet(registry, key) ==
  IF key \in DOMAIN registry THEN registry[key]
  ELSE IF key \in ObjectPrototypeKeys THEN Inherited
  ELSE Undefined

\* !manifestRaw
falsy(raw) == raw.kind \in {"undefined", "null"}

\* StackManifestSchema.parse succeeds
manifestOk(raw) ==
  /\ raw.kind = "object"
  /\ raw.id # ""
  /\ raw.presetVersion > 0
  /\ Len(raw.allowedWriteGlobs) >= 1
  /\ Len(raw.allowPrefixes) >= 1

\* sha256Hex: a digest of the whole text, taken as collision free
sha256Hex(text) == <<"sha256", text>>

\* mutant: explicit steps are not looked at
hasCustomSteps_mut(sp) == FALSE

hasCustomSteps(sp) == Len(sp.steps) > 0

effectsScopeDiags(sp) ==
  IF sp.expansionPolicy = "explicit" /\ (~sp.hasWriteScopes \/ Len(sp.writeScopes) = 0)
  THEN <<diag("E320_EFFECTS_SCOPE_REQUIRED", "", "", <<>>)>>
  ELSE <<>>

noErrors(diags) == Len(SelectSeq(diags, LAMBDA d : d.severity = "error")) = 0

NoPlan == [lang |-> "none"]
NoResult == [ok |-> FALSE, diagnostics |-> <<>>, hasPlan |-> FALSE, plan |-> NoPlan]

fatal(code, id) ==
  [ok |-> FALSE, diagnostics |-> <<diag(code, id, "", <<>>)>>, hasPlan |-> FALSE, plan |-> NoPlan]

\* mutant: the hash also covers the manifest
planOf_mut(text, m, sts) ==
  [lang |-> "webspec/plan-v0.1",
   target |-> m.id,
   presetVersion |-> m.presetVersion,
   specHash |-> <<"sha256", text, m.routingKind>>,
   steps |-> sts]

planOf(text, m, sts) ==
  [lang |-> "webspec/plan-v0.1",
   target |-> m.id,
   presetVersion |-> m.presetVersion,
   specHash |-> sha256Hex(text),
   steps |-> sts]

\* mutant: the plan is attached whatever the diagnostics
finalResult_mut(text, m, sts, diags) ==
  [ok |-> noErrors(diags), diagnostics |-> diags, hasPlan |-> TRUE, plan |-> planOf(text, m, sts)]

\* the final gate of compileWebSpec
finalResult(text, m, sts, diags) ==
  IF ~noErrors(diags)
  THEN [ok |-> FALSE, diagnostics |-> diags, hasPlan |-> FALSE, plan |-> NoPlan]
  ELSE [ok |-> TRUE, diagnostics |-> diags, hasPlan |-> TRUE, plan |-> planOf(text, m, sts)]

(***************************************************************************)
(* One compile, stage by stage                                             *)
(***************************************************************************)
\* try { YAML.parse; WebSpecSchema.parse } catch -> E001_PARSE
ParseFail ==
  /\ pc = "parse"
  /\ ~shapeOk(input.text)
  /\ result' = fatal("E001_PARSE", "")
  /\ pc' = "done"
  /\ UNCHANGED <<input, spec, manifest, decisionMap, steps, diagnostics, prev, runtime, tree, cli>>

ParseOk ==
  /\ pc = "parse"
  /\ shapeOk(input.text)
  /\ spec' = parseSpec(input.text.doc)
  /\ pc' = "target"
  /\ UNCHANGED <<input, manifest, decisionMap, steps, diagnostics, result, prev, runtime, tree, cli>>

TargetUnknown ==
  /\ pc = "target"
  /\ falsy(registryGet(input.registry, spec.target))
  /\ result' = fatal("E100_UNKNOWN_TARGET", spec.target)
  /\ pc' = "done"
  /\ UNCHANGED <<input, spec, manifest, decisionMap, steps, diagnostics, prev, runtime, tree, cli>>

ManifestBad ==
  /\ pc = "target"
  /\ ~falsy(registryGet(input.registry, spec.target))
  /\ ~manifestOk(registryGet(input.registry, spec.target))
  /\ result' = fatal("E101_BAD_MANIFEST", "")
  /\ pc' = "done"
  /\ UNCHANGED <<input, spec, manifest, decisionMap, steps, diagnostics, prev, runtime, tree, cli>>

\* the manifest is accepted; then the E320 check on effects
ManifestOk ==
  /\ pc = "target"
  /\ ~falsy(registryGet(input.registry, spec.target))
  /\ manifestOk(registryGet(input.registry, spec.target))
  /\ manifest' = registryGet(input.registry, spec.target)
  /\ diagnostics' = diagnostics \o effectsScopeDiags(spec)
  /\ pc' = "decisions"
  /\ UNCHANGED <<input, spec, decisionMap, steps, result, prev, runtime, tree, cli>>

ValidateDecisions ==
  /\ pc = "decisions"
  /\ decisionMap' = validateAssumptionsAndDecisions(spec).map
  /\ diagnostics' = diagnostics \o validateAssumptionsAndDecisions(spec).diags
  /\ pc' = "build"
  /\ UNCHANGED <<input, spec, manifest, steps, result, prev, runtime, tree, cli>>

BuildCustomSteps ==
  /\ pc = "build"
  /\ hasCustomSteps(spec)
  /\ ~buildStepsFromSpec(spec, manifest).threw
  /\ steps' = steps \o buildStepsFromSpec(spec, manifest).steps
  /\ diagnostics' = diagnostics \o buildStepsFromSpec(spec, manifest).diags
  /\ pc' = "claims"
  /\ UNCHANGED <<input, spec, manifest, decisionMap, result, prev, runtime, tree, cli>>

StepsRequired ==
  /\ pc = "build"
  /\ ~hasCustomSteps(spec)
  /\ spec.lang = "webspec/v0.2"
  /\ diagnostics' = Append(diagnostics, diag("E902_STEPS_REQUIRED", "", "", <<>>))
  /\ pc' = "claims"
  /\ UNCHANGED <<input, spec, manifest, decisionMap, steps, result, prev, runtime, tree, cli>>

SynthesizeSteps ==
  /\ pc = "build"
  /\ ~hasCustomSteps(spec)
  /\ spec.lang # "webspec/v0.2"
  /\ ~synthesize(spec, manifest).threw
  /\ steps' = steps \o synthesize(spec, manifest).steps
  /\ diagnostics' = diagnostics \o synthesize(spec, manifest).diags
  /\ pc' = "claims"
  /\ UNCHANGED <<input, spec, manifest, decisionMap, result, prev, runtime, tree, cli>>

\* a TypeError escapes compileWebSpec: no CompileOutput is returned
BuildThrows ==
  /\ pc = "build"
  /\ \/ hasCustomSteps(spec) /\ buildStepsFromSpec(spec, manifest).threw
     \/ /\ ~hasCustomSteps(spec)
        /\ spec.lang # "webspec/v0.2"
        /\ synthesize(spec, manifest).threw
  /\ pc' = "threw"
  /\ UNCHANGED <<input, spec, manifest, decisionMap, steps, diagnostics, result, prev, runtime, tree, cli>>

userStepIdsOf(sp) == {sp.steps[i].id : i \in 1..Len(sp.steps)}

\* if (hasCustomSteps) { validateClaims; validateStepDecisions }
ValidateUserSteps ==
  /\ pc = "claims"
  /\ diagnostics' =
       IF hasCustomSteps(spec)
       THEN diagnostics \o validateClaims(spec, steps, userStepIdsOf(spec))
                        \o validateStepDecisions(steps, userStepIdsOf(spec), decisionMap)
       ELSE diagnostics
  /\ pc' = "docs"
  /\ UNCHANGED <<input, spec, manifest, decisionMap, steps, result, prev, runtime, tree, cli>>

DocsAndArtifacts ==
  /\ pc = "docs"
  /\ steps' = appendDocsAndArtifactsChecks(spec, steps)
  /\ diagnostics' = diagnostics \o validateArtifactsWritten(spec, appendDocsAndArtifactsChecks(spec, steps))
  /\ pc' = "effects"
  /\ UNCHANGED <<input, spec, manifest, decisionMap, result, prev, runtime, tree, cli>>

StaticEffectChecks ==
  /\ pc = "effects"
  /\ diagnostics' = diagnostics \o staticEffectChecks(spec, manifest, steps)
  /\ pc' = "gate"
  /\ UNCHANGED <<input, spec, manifest, decisionMap, steps, result, prev, runtime, tree, cli>>

EmitPlan ==
  /\ pc = "gate"
  /\ noErrors(diagnostics)
  /\ result' = finalResult(input.text, manifest, steps, diagnostics)
  /\ pc' = "done"
  /\ UNCHANGED <<input, spec, manifest, decisionMap, steps, diagnostics, prev, runtime, tree, cli>>

RejectPlan ==
  /\ pc = "gate"
  /\ ~noErrors(diagnostics)
  /\ result' = finalResult(input.text, manifest, steps, diagnostics)
  /\ pc' = "done"
  /\ UNCHANGED <<input, spec, manifest, decisionMap, steps, diagnostics, prev, runtime, tree, cli>>

Next ==
  \/ ParseFail
  \/ ParseOk
  \/ TargetUnknown
  \/ ManifestBad
  \/ ManifestOk
  \/ ValidateDecisions
  \/ BuildCustomSteps
  \/ StepsRequired
  \/ SynthesizeSteps
  \/ BuildThrows
  \/ ValidateUserSteps
  \/ DocsAndArtifacts
  \/ StaticEffectChecks
  \/ EmitPlan
  \/ RejectPlan

(***************************************************************************)
(* buildDecisionTree (packages/shared/src/decisions.ts).  A decision is    *)
(* [id, parent]; parent = "" stands for null / undefined.  nodes maps an   *)
(* id to [parent, children].                                               *)
(***************************************************************************)
TreeIdle ==
  [pc |-> "idle", decisions |-> <<>>, nodes |-> [k \in {} |-> <<>>], keys |-> <<>>,
   roots |-> <<>>, error |-> ""]

\* Object.values / Object.entries enumerate integer-like keys first, in
\* ascending numeric order, then the other keys in insertion order
IntegerKeys == [k \in {"1", "2", "3"} |-> IF k = "1" THEN 1 ELSE IF k = "2" THEN 2 ELSE 3]

RECURSIVE sortedIntegerKeys(_)
sortedIntegerKeys(S) ==
  IF S = {} THEN <<>>
  ELSE LET m == CHOOSE k \in S : \A o \in S : IntegerKeys[k] <= IntegerKeys[o]
       IN <<m>> \o sortedIntegerKeys(S \ {m})

objectKeys(inserted) ==
  sortedIntegerKeys({k \in Range(inserted) : k \in DOMAIN IntegerKeys})
  \o SelectSeq(inserted, LAMBDA k : k \notin DOMAIN IntegerKeys)

\* first loop: nodes[d.id] = {...d, parent: d.parent ?? null, children: []}
RECURSIVE indexNodes(_, _, _)
indexNodes(decisions, nodes, inserted) ==
  IF decisions = <<>> THEN [threw |-> FALSE, nodes |-> nodes, inserted |-> inserted]
  ELSE LET d == Head(decisions)
       IN IF d.id \in DOMAIN nodes
          THEN [threw |-> TRUE, nodes |-> nodes, inserted |-> inserted]
          ELSE indexNodes(Tail(decisions),
                          [k \in DOMAIN nodes \cup {d.id} |->
                             IF k = d.id THEN [parent |-> d.parent, children |-> <<>>]
                             ELSE nodes[k]],
                          Append(inserted, d.id))

\* second loop: every node with a parent is pushed to its parent's children
RECURSIVE linkChildren(_, _)
linkChildren(nodes, keys) ==
  IF keys = <<>> THEN [threw |-> FALSE, nodes |-> nodes]
  ELSE LET id == Head(keys)
           parent == nodes[id].parent
       IN IF parent = "" THEN linkChildren(nodes, Tail(keys))
          ELSE IF parent \notin DOMAIN nodes THEN [threw |-> TRUE, nodes |-> nodes]
          ELSE linkChildren([nodes EXCEPT ![parent].children = Append(@, id)], Tail(keys))

rootsOf(nodes, keys) == SelectSeq(keys, LAMBDA k : nodes[k].parent = "")

\* visit(id) and the loop over a child list; st = [threw, visiting, visited]
RECURSIVE visit(_, _, _)
RECURSIVE visitEach(_, _, _)
visit(id, nodes, st) ==
  IF st.threw \/ id \in st.visited THEN st
  ELSE IF id \in st.visiting THEN [st EXCEPT !.threw = TRUE]
  ELSE LET after == visitEach(nodes[id].children, nodes,
                              [st EXCEPT !.visiting = @ \cup {id}])
       IN IF after.threw THEN after
          ELSE [after EXCEPT !.visiting = @ \ {id}, !.visited = @ \cup {id}]

visitEach(ids, nodes, st) ==
  IF ids = <<>> \/ st.threw THEN st
  ELSE visitEach(Tail(ids), nodes, visit(Head(ids), nodes, st))

\* for (const root of roots) visit(root): TRUE when the cycle error is thrown
cycleDetected(nodes, roots) ==
  visitEach(roots, nodes, [threw |-> FALSE, visiting |-> {}, visited |-> {}]).threw

TreeDuplicate ==
  /\ tree.pc = "start"
  /\ indexNodes(tree.decisions, tree.nodes, <<>>).threw
  /\ tree' = [tree EXCEPT !.pc = "threw", !.error = "duplicate"]
  /\ UNCHANGED <<input, pc, spec, manifest, decisionMap, steps, diagnostics, result, prev, runtime, cli>>

TreeIndex ==
  /\ tree.pc = "start"
  /\ ~indexNodes(tree.decisions, tree.nodes, <<>>).threw
  /\ tree' = [tree EXCEPT !.pc = "link",
                          !.nodes = indexNodes(tree.decisions, tree.nodes, <<>>).nodes,
                          !.keys = objectKeys(indexNodes(tree.decisions, tree.nodes, <<>>).inserted)]
  /\ UNCHANGED <<input, pc, spec, manifest, decisionMap, steps, diagnostics, result, prev, runtime, cli>>

TreeMissingParent ==
  /\ tree.pc = "link"
  /\ linkChildren(tree.nodes, tree.keys).threw
  /\ tree' = [tree EXCEPT !.pc = "threw", !.error = "missing parent"]
  /\ UNCHANGED <<input, pc, spec, manifest, decisionMap, steps, diagnostics, result, prev, runtime, cli>>

TreeLink ==
  /\ tree.pc = "link"
  /\ ~linkChildren(tree.nodes, tree.keys).threw
  /\ tree' = [tree EXCEPT !.pc = "visit",
                          !.nodes = linkChildren(tree.nodes, tree.keys).nodes,
                          !.roots = rootsOf(tree.nodes, tree.keys)]
  /\ UNCHANGED <<input, pc, spec, manifest, decisionMap, steps, diagnostics, result, prev, runtime, cli>>

\* the depth-first pass from each root, then byId and the return
TreeFinish ==
  /\ tree.pc = "visit"
  /\ tree' = IF cycleDetected(tree.nodes, tree.roots)
             THEN [tree EXCEPT !.pc = "threw", !.error = "cycle"]
             ELSE [tree EXCEPT !.pc = "done"]
  /\ UNCHANGED <<input, pc, spec, manifest, decisionMap, steps, diagnostics, result, prev, runtime, cli>>

NextTree ==
  \/ TreeDuplicate
  \/ TreeIndex
  \/ TreeMissingParent
  \/ TreeLink
  \/ TreeFinish

(***************************************************************************)
(* Inputs: a stack preset, documents, registries                           *)
(***************************************************************************)
MaxSteps == 2        \* longest explicit step list drawn
MaxDecisions == 2    \* longest decision list drawn

PathOk == <<"apps", "web", "index.ts">>      \* allowed
PathEnv == <<"apps", "web", ".env">>         \* allowed and denied
PathOut == <<"etc", "hosts">>                \* neither allowed nor denied
PathRootEnv == <<".env">>                    \* not allowed, denied
PathReadme == <<"README.md">>                \* allowed, outside apps/**

CmdOk == <<"pnpm", " ", "test">>
CmdLead == <<" ", "pnpm", " ", "test">>
CmdBadPrefix == <<"curl", " ", "x">>
CmdDenied == <<"pnpm", " ", "x", " ", "rm", " ", "-rf">>
CmdBoth == <<"rm", " ", "-rf">>

AllMacros ==
  [n \in {"stack.scaffold", "stack.tailwind_v4_vite", "stack.shadcn_init", "stack.shadcn_add",
          "stack.set_routes", "stack.add_route", "tool.cfg", "unsafe.scaffold"} |->
     CASE n = "stack.scaffold" ->
            [args |-> <<[name |-> "app", type |-> "path"]>>,
             expandsTo |-> <<[kind |-> "run", cmd |-> <<"pnpm", " ", "create", " ", "${app}">>],
                             [kind |-> "writeFile", path |-> <<"${app}", "package.json">>,
                              content |-> <<"${app}">>]>>]
       [] n = "stack.tailwind_v4_vite" ->
            [args |-> <<[name |-> "app", type |-> "path"]>>,
             expandsTo |-> <<[kind |-> "run", cmd |-> <<"pnpm", " ", "add", " ", "tailwindcss">>],
                             [kind |-> "writeFile", path |-> <<"${app}", "vite.config.ts">>,
                              content |-> <<"tw">>]>>]
       [] n = "stack.shadcn_init" ->
            [args |-> <<[name |-> "app", type |-> "path"]>>,
             expandsTo |-> <<[kind |-> "run", cmd |-> <<"pnpm", " ", "dlx", " ", "shadcn">>]>>]
       [] n = "stack.shadcn_add" ->
            [args |-> <<[name |-> "components", type |-> "string[]"]>>,
             expandsTo |-> <<[kind |-> "run",
                              cmd |-> <<"pnpm", " ", "dlx", " ", "add", " ", "${components...}">>]>>]
       [] n = "stack.set_routes" ->
            [args |-> <<[name |-> "routes", type |-> "json"]>>,
             expandsTo |-> <<[kind |-> "writeTemplate",
                              path |-> <<"${app}", "src", "routes.generated.tsx">>,
                              template |-> <<"routes.tpl">>]>>]
       [] n = "stack.add_route" ->
            [args |-> <<[name |-> "app", type |-> "path"]>>,
             expandsTo |-> <<[kind |-> "writeTemplate",
                              path |-> <<"${app}", "app", "${ROUTE_DIR}", "page.tsx">>,
                              template |-> <<"page.tpl">>]>>]
       [] n = "tool.cfg" ->
            [args |-> <<[name |-> "name", type |-> "string"], [name |-> "cfg", type |-> "json"]>>,
             expandsTo |-> <<[kind |-> "appendFile", path |-> <<"apps", "${name}">>,
                              content |-> <<"${cfg}">>]>>]
       [] OTHER ->
            [args |-> <<[name |-> "app", type |-> "path"]>>,
             expandsTo |-> <<[kind |-> "run", cmd |-> <<"curl", " ", "${app}">>],
                             [kind |-> "writeFile", path |-> <<"etc", "${app}">>,
                              content |-> <<>>]>>]]

macroTable(names) == [n \in names |-> AllMacros[n]]

\* a preset in the style of the repository's stacks/*/manifest.json
StackFull ==
  [kind |-> "object", id |-> "t1", presetVersion |-> 1,
   allowedWriteGlobs |-> <<<<"apps", "**">>, <<".ai", "**">>, <<".gitignore">>, <<"README.md">>>>,
   deniedWriteGlobs |-> <<<<"**", ".env">>>>,
   allowPrefixes |-> <<<<"pnpm">>, <<"git">>>>,
   denySubstrings |-> <<<<"rm", " ", "-rf">>>>,
   hasMacros |-> TRUE,
   macros |-> macroTable({"stack.scaffold", "stack.tailwind_v4_vite", "stack.shadcn_init",
                          "stack.shadcn_add", "stack.set_routes", "tool.cfg"}),
   routingKind |-> "vite_react_router"]

StackNext ==
  [StackFull EXCEPT !.macros = macroTable({"stack.scaffold", "stack.add_route"}),
                    !.routingKind = "nextjs_app_router"]

StackScaffoldOnly == [StackFull EXCEPT !.macros = macroTable({"stack.scaffold"})]

StackBare == [StackFull EXCEPT !.hasMacros = FALSE, !.macros = macroTable({})]

\* a preset whose own scaffold macro breaks its own policy
StackUnsafe ==
  [StackFull EXCEPT !.macros = [n \in {"stack.scaffold"} |-> AllMacros["unsafe.scaffold"]]]

\* fails StackManifestSchema: allowedWriteGlobs needs one entry at least
StackInvalid == [StackFull EXCEPT !.allowedWriteGlobs = <<>>]

Null == [kind |-> "null"]

regOf(raw) == [k \in {"t1"} |-> raw]
regEmpty == [k \in {} |-> Null]

BaseDoc ==
  [lang |-> "webspec/v0.2", target |-> "t1",
   hasWorkspace |-> FALSE, aiDir |-> <<".ai">>, keepTracked |-> <<>>,
   components |-> <<>>, routes |-> <<>>, gates |-> <<>>,
   steps |-> <<>>, invariants |-> <<>>,
   requiredFiles |-> <<>>, sections |-> <<>>,
   hasWriteScopes |-> FALSE, writeScopes |-> <<>>, expansionPolicy |-> "absent",
   artifacts |-> <<>>, assumptions |-> <<>>, decisions |-> <<>>]

textOf(doc) == [yamlOk |-> TRUE, variant |-> 0, doc |-> doc]
inputOf(doc, raw) == [text |-> textOf(doc), registry |-> regOf(raw)]

runAct(cmd) == [tag |-> "run", cmd |-> cmd]
writeAct(path) ==
  [tag |-> "writeFile", path |-> path, template |-> <<>>, hasContent |-> TRUE, content |-> <<"x">>]
macroAct(name, args) == [tag |-> "macro", name |-> name, args |-> args]
existsEns(path) == [tag |-> "exists", path |-> path]

stepOf(actions, ensures, claims, decisions) ==
  [id |-> "s", requires |-> <<>>, actions |-> actions, ensures |-> ensures,
   claims |-> claims, decisions |-> decisions]

\* step lists of 1..MaxSteps steps drawn from a set of steps; ids by position
stepLists(S) ==
  {[i \in 1..Len(l) |-> [l[i] EXCEPT !.id = ToString(i)]] :
     l \in UNION {[1..n -> S] : n \in 1..MaxSteps}}

noArgs == [k \in {} |-> StrVal(<<>>)]
appArgs == [k \in {"app"} |-> StrVal(<<"apps", "web">>)]
cfgArgs == [k \in {"cfg"} |-> ArrVal(<<<<"a">>, <<"b">>>>)]

DocLegacy == [BaseDoc EXCEPT !.lang = "webspec/v0.1"]

DocGood ==
  [BaseDoc EXCEPT
     !.invariants = <<"I1">>,
     !.steps = <<[stepOf(<<writeAct(PathOk)>>, <<existsEns(PathOk)>>, <<"I1">>, <<>>)
                    EXCEPT !.id = "1"]>>,
     !.requiredFiles = <<PathReadme>>,
     !.artifacts = <<[path |-> PathOk, mustWrite |-> TRUE]>>]

docWithAction(a) ==
  [DocGood EXCEPT !.steps = <<[stepOf(<<a>>, <<existsEns(PathOk)>>, <<"I1">>, <<>>)
                                 EXCEPT !.id = "1"]>>]

\* inputs that reach every stage of the pipeline; part of every slice
CoreDocs ==
  {DocLegacy, DocGood, BaseDoc, [BaseDoc EXCEPT !.requiredFiles = <<PathReadme>>],
   docWithAction(runAct(CmdBadPrefix)),
   docWithAction(macroAct("constructor", noArgs)),
   docWithAction(macroAct("nope", noArgs)),
   docWithAction(macroAct("tool.cfg", cfgArgs)),
   docWithAction(macroAct("stack.scaffold", appArgs)),
   docWithAction([tag |-> "bogus"])}

CoreRegistries == {regEmpty, regOf(StackFull), regOf(StackInvalid), regOf(Null)}

CoreInputs ==
  {[text |-> [yamlOk |-> FALSE, variant |-> 0, doc |-> BaseDoc], registry |-> regOf(StackFull)],
   inputOf([BaseDoc EXCEPT !.lang = "webspec/v9"], StackFull),
   inputOf([DocLegacy EXCEPT !.target = ""], StackFull)}
  \cup {[text |-> [yamlOk |-> TRUE, variant |-> v, doc |-> [d EXCEPT !.target = t]], registry |-> r] :
          v \in {0, 1}, d \in {DocLegacy, DocGood}, t \in {"t1", "nope", "constructor"},
          r \in CoreRegistries}
  \cup {inputOf(d, StackFull) : d \in CoreDocs}

(***************************************************************************)
(* Slice: effects and commands of explicit steps                           *)
(***************************************************************************)
EffectActions ==
  {runAct(c) : c \in {CmdOk, CmdLead, CmdBadPrefix, CmdDenied, CmdBoth}}
  \cup {writeAct(p) : p \in {PathOk, PathEnv, PathOut, PathRootEnv, PathReadme}}

EffectSteps ==
  {stepOf(<<a>>, <<existsEns(PathOk)>>, <<"I1">>, <<>>) : a \in EffectActions}
  \cup {stepOf(<<>>, <<>>, <<"I1">>, <<>>)}

ScopeChoices ==
  {[has |-> FALSE, scopes |-> <<>>, pol |-> "absent"],
   [has |-> FALSE, scopes |-> <<>>, pol |-> "explicit"],
   [has |-> TRUE, scopes |-> <<>>, pol |-> "inherit"],
   [has |-> TRUE, scopes |-> <<>>, pol |-> "explicit"],
   [has |-> TRUE, scopes |-> <<<<"apps", "**">>>>, pol |-> "explicit"]}

EffectInputs ==
  {inputOf([BaseDoc EXCEPT !.invariants = <<"I1">>, !.steps = sl,
                           !.hasWriteScopes = sc.has, !.writeScopes = sc.scopes,
                           !.expansionPolicy = sc.pol],
           StackFull) :
     sl \in stepLists(EffectSteps), sc \in ScopeChoices}

(***************************************************************************)
(* Slice: the synthesized legacy program                                   *)
(***************************************************************************)
LegacyInputs ==
  {inputOf([DocLegacy EXCEPT !.hasWorkspace = ws.has, !.aiDir = ws.aiDir,
                             !.keepTracked = ws.keep,
                             !.components = comps, !.routes = rts, !.gates = gs],
           st) :
     ws \in {[has |-> FALSE, aiDir |-> <<".ai">>, keep |-> <<>>],
             [has |-> TRUE, aiDir |-> <<".ai">>, keep |-> <<<<".ai", "README.md">>>>],
             [has |-> TRUE, aiDir |-> <<"tmp">>, keep |-> <<<<"tmp", "README.md">>>>]},
     comps \in {<<>>, <<<<"button">>, <<"card">>>>},
     rts \in {<<>>, <<[path |-> <<>>, page |-> "Home"], [path |-> <<"play">>, page |-> "Play"]>>},
     gs \in {<<>>, <<CmdOk>>, <<CmdBadPrefix>>, <<CmdOk, CmdDenied>>},
     st \in {StackFull, StackNext, StackScaffoldOnly, StackBare, StackUnsafe}}

(***************************************************************************)
(* Slice: claims and invariants                                            *)
(***************************************************************************)
ClaimSteps ==
  {stepOf(acts, <<existsEns(PathOk)>>, cl, <<>>) :
     acts \in {<<>>, <<runAct(CmdOk)>>},
     cl \in {<<>>, <<"I1">>, <<"I2">>, <<"IX">>}}
  \cup {stepOf(<<runAct(CmdOk)>>, <<>>, cl, <<>>) : cl \in {<<>>, <<"I1">>}}

ClaimInputs ==
  {inputOf([BaseDoc EXCEPT !.lang = lg, !.invariants = inv, !.steps = sl], StackFull) :
     lg \in Langs, inv \in {<<>>, <<"I1">>, <<"I1", "I2">>}, sl \in stepLists(ClaimSteps)}

(***************************************************************************)
(* Slice: assumptions and decisions                                        *)
(***************************************************************************)
DecisionRecords ==
  [id : {"D1", "D2"}, status : {"final", "provisional"}]

DecisionLists == UNION {[1..n -> DecisionRecords] : n \in 0..MaxDecisions}

AssumptionLists ==
  {<<>>} \cup {<<[id |-> i, status |-> st]>> : i \in {"D1", "D2"}, st \in {"verified", "unverified"}}

DecisionInputs ==
  {inputOf([BaseDoc EXCEPT !.invariants = <<"I1">>, !.assumptions = as, !.decisions = ds,
              !.steps = <<[stepOf(<<runAct(CmdOk)>>, <<existsEns(PathOk)>>, <<"I1">>, sd)
                             EXCEPT !.id = "1"]>>],
           StackFull) :
     as \in AssumptionLists, ds \in DecisionLists, sd \in {<<>>, <<"D1">>, <<"D2">>, <<"D1", "D2">>}}

(***************************************************************************)
(* Slice: required artifacts                                               *)
(***************************************************************************)
appendAct(path) == [tag |-> "appendFile", path |-> path, content |-> <<"x">>]
templateAct(path) == [tag |-> "writeTemplate", path |-> path, template |-> <<"page.tpl">>]

ArtifactSteps ==
  {stepOf(<<a>>, <<existsEns(PathOk)>>, <<"I1">>, <<>>) :
     a \in {writeAct(PathOk), appendAct(PathReadme), templateAct(PathOk), runAct(CmdOk)}}

ArtifactRecords == [path : {PathOk, PathReadme}, mustWrite : BOOLEAN]

ArtifactLists == {<<>>} \cup {<<a>> : a \in ArtifactRecords}
                 \cup {<<a, b>> : a \in ArtifactRecords, b \in ArtifactRecords}

ArtifactInputs ==
  {inputOf([BaseDoc EXCEPT !.invariants = <<"I1">>, !.steps = sl, !.artifacts = ar], StackFull) :
     sl \in stepLists(ArtifactSteps), ar \in ArtifactLists}
  \cup {inputOf([DocLegacy EXCEPT !.artifacts = ar], StackFull) : ar \in ArtifactLists}

Inputs ==
  CoreInputs \cup EffectInputs \cup LegacyInputs \cup ClaimInputs \cup DecisionInputs
  \cup ArtifactInputs

EmptyManifest == [kind |-> "none"]

(***************************************************************************)
(* The CLI (packages/cli/src/cli.ts): what one invocation of `webspec       *)
(* compile` or `webspec run` leaves behind.  outDir and workdir outlive    *)
(* the process; did lists what this invocation has written or created,     *)
(* earlier the commands of the invocations before it.                      *)
(***************************************************************************)
NoFile == [exists |-> FALSE]
fileOf(content) == [exists |-> TRUE, content |-> content]

NoWorkdir == [exists |-> FALSE, repo |-> FALSE, tracked |-> {}]

CliIdle ==
  [cmd |-> "none", exited |-> FALSE, status |-> 0,
   outDir |-> [diagnostics |-> NoFile, plan |-> NoFile],
   workdir |-> NoWorkdir, did |-> <<>>, invocations |-> 1, earlier |-> <<>>]

(***************************************************************************)
(* runPlan (packages/runtime/src/index.ts).  k is the position in the      *)
(* loop nest "for step, for op, for check"; pending says that the op or    *)
(* check at k has been started and is being awaited.                       *)
(***************************************************************************)
\* The directory a plan runs in, as git sees it: whether it is inside a work
\* tree, and the paths in its index.  No op of runPlan adds a path to the
\* index: the write ops write files, and the commands drawn here are not
\* git commands.
PlainDir == [repo |-> FALSE, tracked |-> {}]

RuntimeIdle ==
  [status |-> "idle", stack |-> EmptyManifest, steps |-> <<>>, k |-> 1, pending |-> FALSE,
   trace |-> <<>>, effects |-> <<>>, error |-> "", cwd |-> PlainDir]

\* glob.replace("/**", ""): the first "**" segment after another segment goes
pathspecOf(glob) ==
  LET stars == {i \in 2..Len(glob) : glob[i] = "**"}
  IN IF stars = {} THEN glob
     ELSE LET n == CHOOSE i \in stars : \A j \in stars : i <= j
          IN SubSeq(glob, 1, n - 1) \o SubSeq(glob, n + 1, Len(glob))

\* git ls-files -- <dir>: the tracked paths at or below dir
lsFiles(cwd, dir) ==
  {f \in cwd.tracked : Len(f) >= Len(dir) /\ SubSeq(f, 1, Len(dir)) = dir}

\* mutant: an empty listing passes
checkGitTrackedOnly_mut(cwd, glob, allow) ==
  IF ~cwd.repo THEN "failed"
  ELSE IF lsFiles(cwd, pathspecOf(glob)) = {} THEN "ok"
  ELSE IF Len(allow) = Cardinality(lsFiles(cwd, pathspecOf(glob)))
          /\ Range(allow) = lsFiles(cwd, pathspecOf(glob))
  THEN "ok" ELSE "failed"

\* the sorted listing equals the sorted allow list: the listing has no
\* repeats, so the lists are equal when allow has none and the same members
checkGitTrackedOnly(cwd, glob, allow) ==
  IF ~cwd.repo THEN "failed"
  ELSE IF Len(allow) = Cardinality(lsFiles(cwd, pathspecOf(glob)))
          /\ Range(allow) = lsFiles(cwd, pathspecOf(glob))
  THEN "ok" ELSE "failed"

\* mutant: the denied globs are not consulted
isAllowedPath_mut(p, allowed, denied) == someMatch(p, allowed)

isAllowedPath(p, allowed, denied) ==
  IF someMatch(p, denied) THEN FALSE ELSE someMatch(p, allowed)

\* the dispatch on op.kind up to the effect: the three write kinds test
\* isAllowedPath, RUN tests the prefix and every denied substring
opVerdict(op, stack) ==
  IF IsWriteOp(op)
  THEN IF isAllowedPath(op.path, stack.allowedWriteGlobs, stack.deniedWriteGlobs)
       THEN "admitted" ELSE "rejected"
  ELSE IF op.kind = "RUN"
  THEN IF leadingToken(op.cmd) \notin Range(stack.allowPrefixes) THEN "rejected"
       ELSE IF \E i \in 1..Len(stack.denySubstrings) : Includes(op.cmd, stack.denySubstrings[i])
       THEN "rejected"
       ELSE "admitted"
  ELSE "unknown"

KnownChecks ==
  {"file.exists", "file.contains", "cmd.ok", "git.trackedOnly", "route.exists",
   "doc.section", "doc.contains", "doc.contains_fuzzy", "artifact.exists"}

\* scores fuzzyScore can return, in hundredths
Scores == {0, 50, 79, 80, 100}

\* mutant: the gate is not looked at
checkDocContainsFuzzy_mut(score, threshold, gate) ==
  IF score < threshold THEN "failed" ELSE "ok"

\* gate is "true", "false" or "absent"; the parameter default makes absent true
checkDocContainsFuzzy(score, threshold, gate) ==
  IF score < threshold
  THEN IF gate = "false" THEN "warned" ELSE "failed"
  ELSE "ok"

\* mutant: steps without requires run first
stepOrder_mut(sts) ==
  SelectSeq([i \in 1..Len(sts) |-> i], LAMBDA i : Len(sts[i].requires) = 0)
  \o SelectSeq([i \in 1..Len(sts) |-> i], LAMBDA i : Len(sts[i].requires) > 0)

\* for (const step of plan.steps): the list order
stepOrder(sts) == [i \in 1..Len(sts) |-> i]

\* the loop nest flattened: per step its ops, then its checks
program(sts) ==
  Concat([n \in 1..Len(stepOrder(sts)) |->
            [j \in 1..Len(sts[stepOrder(sts)[n]].ops) |->
               [kind |-> "op", i |-> stepOrder(sts)[n], j |-> j]]
            \o [j \in 1..Len(sts[stepOrder(sts)[n]].checks) |->
                  [kind |-> "check", i |-> stepOrder(sts)[n], j |-> j]]])

current(r) == program(r.steps)[r.k]
currentOp(r) == r.steps[current(r).i].ops[current(r).j]
currentCheck(r) == r.steps[current(r).i].checks[current(r).j]

mkEvent(pos, outcome, score) ==
  [kind |-> pos.kind, i |-> pos.i, j |-> pos.j, outcome |-> outcome, score |-> score]

setLast(trace, outcome, score) ==
  [trace EXCEPT ![Len(trace)] = [@ EXCEPT !.outcome = outcome, !.score = score]]

\* mutant: a failure undoes what was applied
throwError_mut(r, msg) ==
  [r EXCEPT !.status = "failed", !.pending = FALSE, !.error = msg, !.effects = <<>>]

\* throw new Error(...): the rejection leaves runPlan; nothing is undone
throwError(r, msg) == [r EXCEPT !.status = "failed", !.pending = FALSE, !.error = msg]

\* PlanSchema.parse succeeds
planOk(plan) ==
  /\ plan.lang = "webspec/plan-v0.1"
  /\ plan.target # ""
  /\ plan.presetVersion > 0
  /\ \A i \in 1..Len(plan.steps) : plan.steps[i].id # ""

\* runPlan up to the loop: plan schema, registry lookup, manifest schema
startRun(plan, registry, cwd) ==
  IF ~planOk(plan) THEN throwError(RuntimeIdle, "bad plan")
  ELSE IF falsy(registryGet(registry, plan.target)) THEN throwError(RuntimeIdle, "unknown target")
  ELSE IF ~manifestOk(registryGet(registry, plan.target)) THEN throwError(RuntimeIdle, "bad manifest")
  ELSE [RuntimeIdle EXCEPT !.status = "running",
                           !.stack = registryGet(registry, plan.target),
                           !.steps = plan.steps,
                           !.cwd = cwd]

opEffect(op) ==
  IF op.kind = "RUN" THEN [kind |-> "spawn", target |-> op.cmd, by |-> "op"]
  ELSE [kind |-> IF op.kind = "APPEND_FILE" THEN "append" ELSE "write",
        target |-> op.path, by |-> "op"]

\* mutant: the commands go on whatever the compile returned
compileSucceeded_mut(res) == TRUE

\* the negation of "if (!res.ok || !res.plan)"
compileSucceeded(res) == res.ok /\ res.hasPlan

\* fs.mkdir(workdir); without workdir/.git, git init: a new, empty index
workdirReady(w) ==
  IF w.exists /\ w.repo THEN w ELSE [exists |-> TRUE, repo |-> TRUE, tracked |-> {}]

workdirLog(w) ==
  (IF w.exists THEN <<>> ELSE <<"mkdir workdir">>)
  \o (IF w.exists /\ w.repo THEN <<>> ELSE <<"git init">>)

\* the CLI's run command after a compile that gave a plan: plan.json is
\* written, the work directory is made ready, runPlan(res.plan) starts
CliRun ==
  /\ cli.cmd = "run" /\ ~cli.exited
  /\ pc = "done"
  /\ compileSucceeded(result)
  /\ runtime.status = "idle"
  /\ cli' = [cli EXCEPT !.outDir.plan = fileOf(result.plan),
                        !.workdir = workdirReady(@),
                        !.did = @ \o <<"plan.json">> \o workdirLog(cli.workdir)]
  /\ runtime' = startRun(result.plan, input.registry,
                         [repo |-> TRUE, tracked |-> workdirReady(cli.workdir).tracked])
  /\ UNCHANGED <<input, pc, spec, manifest, decisionMap, steps, diagnostics, result, prev, tree>>

\* runPlan called by a program other than the CLI, with the plan of the
\* steps the compiler built and withheld
RunWithheldPlan ==
  /\ cli.cmd = "none"
  /\ pc = "done"
  /\ manifest.kind = "object"
  /\ ~result.hasPlan
  /\ runtime.status = "idle"
  /\ runtime' = startRun(planOf(input.text, manifest, steps), input.registry, PlainDir)
  /\ UNCHANGED <<input, pc, spec, manifest, decisionMap, steps, diagnostics, result, prev, tree, cli>>

OpReject ==
  /\ runtime.status = "running" /\ ~runtime.pending
  /\ runtime.k <= Len(program(runtime.steps))
  /\ current(runtime).kind = "op"
  /\ opVerdict(currentOp(runtime), runtime.stack) # "admitted"
  /\ runtime' =
       throwError([runtime EXCEPT !.trace =
                     Append(@, mkEvent(current(runtime),
                                       opVerdict(currentOp(runtime), runtime.stack), -1))],
                  "op refused")
  /\ UNCHANGED <<input, pc, spec, manifest, decisionMap, steps, diagnostics, result, prev, tree, cli>>

\* the op passed its test: a command is spawned, a write is under way
OpStart ==
  /\ runtime.status = "running" /\ ~runtime.pending
  /\ runtime.k <= Len(program(runtime.steps))
  /\ current(runtime).kind = "op"
  /\ opVerdict(currentOp(runtime), runtime.stack) = "admitted"
  /\ runtime' = [runtime EXCEPT
                   !.pending = TRUE,
                   !.trace = Append(@, mkEvent(current(runtime), "pending", -1)),
                   !.effects = IF currentOp(runtime).kind = "RUN"
                               THEN Append(@, opEffect(currentOp(runtime))) ELSE @]
  /\ UNCHANGED <<input, pc, spec, manifest, decisionMap, steps, diagnostics, result, prev, tree, cli>>

\* the awaited promise settles: the file is written / the command exited 0,
\* or the file system or the command failed
OpFinish ==
  /\ runtime.status = "running" /\ runtime.pending
  /\ current(runtime).kind = "op"
  /\ \E ok \in BOOLEAN :
       runtime' =
         IF ok
         THEN [runtime EXCEPT
                 !.pending = FALSE,
                 !.k = @ + 1,
                 !.trace = setLast(@, "ok", -1),
                 !.effects = IF IsWriteOp(currentOp(runtime))
                             THEN Append(@, opEffect(currentOp(runtime))) ELSE @]
         ELSE throwError([runtime EXCEPT !.trace = setLast(@, "failed", -1)], "op failed")
  /\ UNCHANGED <<input, pc, spec, manifest, decisionMap, steps, diagnostics, result, prev, tree, cli>>

CheckUnknown ==
  /\ runtime.status = "running" /\ ~runtime.pending
  /\ runtime.k <= Len(program(runtime.steps))
  /\ current(runtime).kind = "check"
  /\ currentCheck(runtime).kind \notin KnownChecks
  /\ runtime' =
       throwError([runtime EXCEPT !.trace = Append(@, mkEvent(current(runtime), "unknown", -1))],
                  "unknown check kind")
  /\ UNCHANGED <<input, pc, spec, manifest, decisionMap, steps, diagnostics, result, prev, tree, cli>>

\* a cmd.ok check spawns its command as it is
CheckStart ==
  /\ runtime.status = "running" /\ ~runtime.pending
  /\ runtime.k <= Len(program(runtime.steps))
  /\ current(runtime).kind = "check"
  /\ currentCheck(runtime).kind \in KnownChecks
  /\ runtime' = [runtime EXCEPT
                   !.pending = TRUE,
                   !.trace = Append(@, mkEvent(current(runtime), "pending", -1)),
                   !.effects = IF currentCheck(runtime).kind = "cmd.ok"
                               THEN Append(@, [kind |-> "spawn",
                                               target |-> currentCheck(runtime).cmd,
                                               by |-> "check"])
                               ELSE @]
  /\ UNCHANGED <<input, pc, spec, manifest, decisionMap, steps, diagnostics, result, prev, tree, cli>>

\* the fuzzy check reads the file and scores it; the others pass or throw
CheckFinish ==
  /\ runtime.status = "running" /\ runtime.pending
  /\ current(runtime).kind = "check"
  /\ \E ok \in BOOLEAN, score \in Scores :
       LET fuzzy == currentCheck(runtime).kind = "doc.contains_fuzzy"
           outcome == IF ~ok THEN "failed"
                      ELSE IF currentCheck(runtime).kind = "git.trackedOnly"
                      THEN checkGitTrackedOnly(runtime.cwd, currentCheck(runtime).glob,
                                               currentCheck(runtime).allow)
                      ELSE IF fuzzy
                      THEN checkDocContainsFuzzy(score, currentCheck(runtime).threshold,
                                                 currentCheck(runtime).gate)
                      ELSE "ok"
           shown == IF ok /\ fuzzy THEN score ELSE -1
       IN runtime' =
            IF outcome = "failed"
            THEN throwError([runtime EXCEPT !.trace = setLast(@, "failed", shown)], "check failed")
            ELSE [runtime EXCEPT !.pending = FALSE, !.k = @ + 1,
                                 !.trace = setLast(@, outcome, shown)]
  /\ UNCHANGED <<input, pc, spec, manifest, decisionMap, steps, diagnostics, result, prev, tree, cli>>

\* the loops are exhausted: runPlan resolves
RunComplete ==
  /\ runtime.status = "running" /\ ~runtime.pending
  /\ runtime.k > Len(program(runtime.steps))
  /\ runtime' = [runtime EXCEPT !.status = "done"]
  /\ UNCHANGED <<input, pc, spec, manifest, decisionMap, steps, diagnostics, result, prev, tree, cli>>

\* plans written by hand, as a caller of runPlan can pass them
handPlan(sts) ==
  [lang |-> "webspec/plan-v0.1", target |-> "t1", presetVersion |-> 1,
   specHash |-> sha256Hex(textOf(BaseDoc)), steps |-> sts]

handStep(id, requires, ops, checks) ==
  [id |-> id, requires |-> requires, ops |-> ops, checks |-> checks]

writeOp(path) == [kind |-> "WRITE_FILE", path |-> path, content |-> <<"x">>]
runOp(cmd) == [kind |-> "RUN", cmd |-> cmd]
existsCheck(path) == [kind |-> "file.exists", path |-> path]

HandPlans ==
  {handPlan(<<>>),
   [handPlan(<<>>) EXCEPT !.lang = "webspec/plan-v9"],
   handPlan(<<handStep("a", <<"b">>,
                       <<writeOp(PathOk), [kind |-> "DELETE_FILE", path |-> PathOk],
                         writeOp(PathReadme)>>,
                       <<existsCheck(PathOk)>>),
              handStep("b", <<>>, <<runOp(CmdOk)>>, <<existsCheck(PathOk)>>)>>),
   handPlan(<<handStep("a", <<"zzz">>, <<runOp(CmdOk)>>,
                       <<[kind |-> "http.ok", url |-> <<"x">>], existsCheck(PathOk)>>),
              handStep("b", <<>>, <<writeOp(PathOk)>>, <<>>)>>),
   handPlan(<<handStep("a", <<>>, <<writeOp(PathOk), writeOp(PathEnv), writeOp(PathOut)>>,
                       <<[kind |-> "cmd.ok", cmd |-> CmdBadPrefix]>>)>>),
   handPlan(<<handStep("a", <<>>, <<runOp(CmdOk), runOp(CmdDenied)>>, <<>>),
              handStep("b", <<>>, <<runOp(CmdBadPrefix)>>, <<>>)>>)}

\* runPlan called directly, without a compile
RunHandPlan ==
  /\ pc = "off"
  /\ runtime.status = "idle"
  /\ \E plan \in HandPlans, reg \in {regOf(StackFull), regOf(StackInvalid), regEmpty} :
       runtime' = startRun(plan, reg, PlainDir)
  /\ UNCHANGED <<input, pc, spec, manifest, decisionMap, steps, diagnostics, result, prev, tree, cli>>

NextRun ==
  \/ Next
  \/ CliRun
  \/ RunWithheldPlan
  \/ RunHandPlan
  \/ OpReject
  \/ OpStart
  \/ OpFinish
  \/ CheckUnknown
  \/ CheckStart
  \/ CheckFinish
  \/ RunComplete

(***************************************************************************)
(* The CLI commands around the compile: how the process ends, and the      *)
(* next invocation on the same spec file, output and work directory.       *)
(***************************************************************************)
MaxInvocations == 2  \* invocations of the CLI in a row

\* webspec compile: diagnostics.json is written, then exit(1)
CliCompileFailed ==
  /\ cli.cmd = "compile" /\ ~cli.exited
  /\ pc = "done"
  /\ ~compileSucceeded(result)
  /\ cli' = [cli EXCEPT !.outDir.diagnostics = fileOf(result.diagnostics),
                        !.did = @ \o <<"diagnostics.json">>,
                        !.exited = TRUE, !.status = 1]
  /\ UNCHANGED <<input, pc, spec, manifest, decisionMap, steps, diagnostics, result, prev,
                 runtime, tree>>

\* webspec compile: diagnostics.json, then plan.json
CliCompileOk ==
  /\ cli.cmd = "compile" /\ ~cli.exited
  /\ pc = "done"
  /\ compileSucceeded(result)
  /\ cli' = [cli EXCEPT !.outDir.diagnostics = fileOf(result.diagnostics),
                        !.outDir.plan = fileOf(result.plan),
                        !.did = @ \o <<"diagnostics.json", "plan.json">>,
                        !.exited = TRUE, !.status = 0]
  /\ UNCHANGED <<input, pc, spec, manifest, decisionMap, steps, diagnostics, result, prev,
                 runtime, tree>>

\* webspec run: the compile failed, exit(1) before anything is written
CliRunFailed ==
  /\ cli.cmd = "run" /\ ~cli.exited
  /\ pc = "done"
  /\ ~compileSucceeded(result)
  /\ cli' = [cli EXCEPT !.exited = TRUE, !.status = 1]
  /\ UNCHANGED <<input, pc, spec, manifest, decisionMap, steps, diagnostics, result, prev,
                 runtime, tree>>

\* compileWebSpec threw: the command's promise rejects and the process
\* ends with status 1
CliThrew ==
  /\ cli.cmd \in {"compile", "run"} /\ ~cli.exited
  /\ pc = "threw"
  /\ cli' = [cli EXCEPT !.exited = TRUE, !.status = 1]
  /\ UNCHANGED <<input, pc, spec, manifest, decisionMap, steps, diagnostics, result, prev,
                 runtime, tree>>

\* webspec run: runPlan resolved ("Run complete.") or rejected
CliRunExit ==
  /\ cli.cmd = "run" /\ ~cli.exited
  /\ runtime.status \in {"done", "failed"}
  /\ cli' = [cli EXCEPT !.exited = TRUE,
                        !.status = IF runtime.status = "done" THEN 0 ELSE 1]
  /\ UNCHANGED <<input, pc, spec, manifest, decisionMap, steps, diagnostics, result, prev,
                 runtime, tree>>

\* the spec file and the stacks directory as the next invocation finds them
NextSpecFiles ==
  {inputOf(DocGood, StackFull), inputOf(BaseDoc, StackFull), inputOf(DocLegacy, StackFull),
   inputOf(docWithAction(macroAct("constructor", noArgs)), StackFull)}

\* the CLI is invoked again: a new process, the same directories
CliInvoke ==
  /\ cli.exited
  /\ cli.invocations < MaxInvocations
  /\ \E c \in {"compile", "run"} :
       cli' = [cli EXCEPT !.cmd = c, !.exited = FALSE, !.status = 0, !.did = <<>>,
                          !.invocations = @ + 1, !.earlier = Append(@, cli.cmd)]
  /\ input' \in NextSpecFiles
  /\ pc' = "parse"
  /\ spec' = BaseDoc
  /\ manifest' = EmptyManifest
  /\ decisionMap' = decisionMapOf(<<>>)
  /\ steps' = <<>>
  /\ diagnostics' = <<>>
  /\ result' = NoResult
  /\ runtime' = RuntimeIdle
  /\ UNCHANGED <<prev, tree>>

NextCli ==
  \/ NextRun
  \/ CliCompileFailed
  \/ CliCompileOk
  \/ CliRunFailed
  \/ CliThrew
  \/ CliRunExit
  \/ CliInvoke

\* the state before the first stage of a compile, for an invocation cmd of
\* the CLI ("none": compileWebSpec called as a library) and a work directory
initCli(S, cmds, workdirs) ==
  /\ input \in S
  /\ pc = "parse"
  /\ spec = BaseDoc
  /\ manifest = EmptyManifest
  /\ decisionMap = decisionMapOf(<<>>)
  /\ steps = <<>>
  /\ diagnostics = <<>>
  /\ result = NoResult
  /\ prev = [has |-> FALSE, input |-> input, result |-> NoResult, threw |-> FALSE]
  /\ runtime = RuntimeIdle
  /\ tree = TreeIdle
  /\ cli \in {[CliIdle EXCEPT !.cmd = c, !.workdir = w] : c \in cmds, w \in workdirs}

initWith(S) == initCli(S, {"none"}, {NoWorkdir})

Init == initWith(Inputs)

Spec == Init /\ [][Next]_vars

InitCore == initWith(CoreInputs)
InitEffects == initWith(CoreInputs \cup EffectInputs \cup LegacyInputs)
InitClaims == initWith(CoreInputs \cup ClaimInputs)
InitArtifacts == initWith(CoreInputs \cup ArtifactInputs)
InitDecisions == initWith(CoreInputs \cup DecisionInputs)

(***************************************************************************)
(* A second compile after the first (the CLI run again, the Studio         *)
(* recompiling): the first compile's input and outcome are kept in prev.   *)
(***************************************************************************)
RecompileInputs ==
  {[text |-> [yamlOk |-> TRUE, variant |-> v, doc |-> d], registry |-> r] :
     v \in {0, 1}, d \in {DocLegacy, DocGood},
     r \in {regEmpty, regOf(StackFull), regOf(StackNext)}}

Recompile ==
  /\ pc \in {"done", "threw"}
  /\ ~prev.has
  /\ prev' = [has |-> TRUE, input |-> input, result |-> result, threw |-> pc = "threw"]
  /\ input' \in RecompileInputs
  /\ pc' = "parse"
  /\ spec' = BaseDoc
  /\ manifest' = EmptyManifest
  /\ decisionMap' = decisionMapOf(<<>>)
  /\ steps' = <<>>
  /\ diagnostics' = <<>>
  /\ result' = NoResult
  /\ UNCHANGED <<runtime, tree, cli>>

NextRecompile == Next \/ Recompile

InitRecompile == initWith(CoreInputs \cup RecompileInputs)

SpecRecompile == InitRecompile /\ [][NextRecompile]_vars

SpecEffects == InitEffects /\ [][Next]_vars
SpecClaims == InitClaims /\ [][Next]_vars
SpecArtifacts == InitArtifacts /\ [][Next]_vars
SpecDecisions == InitDecisions /\ [][Next]_vars

(***************************************************************************)
(* Slice: compile, then run.  Steps with writes and commands inside and    *)
(* outside the policy, requires that name a later or a missing step, and   *)
(* fuzzy doc checks with each gate value.                                  *)
(***************************************************************************)
fuzzyEns(gate, hasThreshold) ==
  [tag |-> "docContainsFuzzy", path |-> PathReadme, text |-> <<"intro">>,
   hasThreshold |-> hasThreshold, threshold |-> 50, gate |-> gate]

Gates == {"absent", "true", "false"}

RunSteps ==
  {stepOf(<<a>>, <<existsEns(PathOk)>>, <<"I1">>, <<>>) :
     a \in {writeAct(PathOk), writeAct(PathReadme), writeAct(PathEnv),
            runAct(CmdOk), runAct(CmdBadPrefix)}}
  \cup {[stepOf(<<writeAct(PathOk)>>, <<existsEns(PathOk)>>, <<"I1">>, <<>>)
           EXCEPT !.requires = <<"2">>],
        [stepOf(<<runAct(CmdLead)>>, <<[tag |-> "cmdOk", cmd |-> CmdOk]>>, <<"I1">>, <<>>)
           EXCEPT !.requires = <<"zzz">>]}
  \cup {stepOf(<<appendAct(PathReadme)>>, <<fuzzyEns(g, TRUE)>>, <<"I1">>, <<>>) : g \in Gates}
  \cup {stepOf(<<appendAct(PathReadme)>>, <<fuzzyEns("false", FALSE)>>, <<"I1">>, <<>>)}

fuzzySection(gate) ==
  [file |-> PathReadme, heading |-> <<"Intro">>, mustContain |-> <<<<"intro">>>>,
   mustContainFuzzy |-> <<[text |-> <<"intro">>, hasThreshold |-> FALSE, threshold |-> 0,
                           gate |-> gate]>>]

RunInputs ==
  {inputOf([BaseDoc EXCEPT !.invariants = <<"I1">>, !.steps = sl,
                           !.hasWriteScopes = sc.has, !.writeScopes = sc.scopes],
           StackFull) :
     sl \in stepLists(RunSteps),
     sc \in {[has |-> FALSE, scopes |-> <<>>], [has |-> TRUE, scopes |-> <<<<"apps", "**">>>>]}}
  \cup {inputOf([DocGood EXCEPT !.sections = <<fuzzySection(g)>>], StackFull) : g \in Gates}
  \cup {inputOf([DocLegacy EXCEPT !.gates = gs], st) :
          gs \in {<<>>, <<CmdOk>>}, st \in {StackFull, StackNext}}
  \cup {inputOf([BaseDoc EXCEPT
                   !.invariants = <<"I1">>,
                   !.steps = <<[stepOf(<<runAct(CmdOk)>>, <<[tag |-> "cmdOk", cmd |-> c]>>,
                                       <<"I1">>, <<>>) EXCEPT !.id = "1"]>>],
                 StackFull) :
          c \in {CmdBadPrefix, CmdDenied}}

InitLibrary ==
  /\ input = inputOf(BaseDoc, StackFull)
  /\ pc = "off"
  /\ spec = BaseDoc
  /\ manifest = EmptyManifest
  /\ decisionMap = decisionMapOf(<<>>)
  /\ steps = <<>>
  /\ diagnostics = <<>>
  /\ result = NoResult
  /\ prev = [has |-> FALSE, input |-> input, result |-> NoResult, threw |-> FALSE]
  /\ runtime = RuntimeIdle
  /\ tree = TreeIdle
  /\ cli = CliIdle

InitRun == initCli(CoreInputs \cup RunInputs, {"none", "run"}, {NoWorkdir}) \/ InitLibrary

SpecRun == InitRun /\ [][NextRun]_vars

(***************************************************************************)
(* Slice: the CLI.  `webspec compile` and `webspec run` on the core inputs *)
(* and on legacy specs, started with a work directory that is absent, a    *)
(* plain directory, or a git work tree with files tracked.                 *)
(***************************************************************************)
WorkspaceAi == [has |-> TRUE, aiDir |-> <<".ai">>, keep |-> <<<<".ai", "README.md">>>>]

Workdirs ==
  {NoWorkdir,
   [exists |-> TRUE, repo |-> FALSE, tracked |-> {}],
   [exists |-> TRUE, repo |-> TRUE, tracked |-> {<<".ai", "README.md">>, <<".ai", ".gitkeep">>}],
   [exists |-> TRUE, repo |-> TRUE, tracked |-> {<<"README.md">>}]}

CliInputs ==
  CoreInputs
  \cup {inputOf([DocLegacy EXCEPT !.hasWorkspace = TRUE, !.aiDir = WorkspaceAi.aiDir,
                                   !.keepTracked = WorkspaceAi.keep, !.gates = gs],
                 st) :
          gs \in {<<>>, <<CmdOk>>}, st \in {StackFull, StackNext}}

InitCli ==
  \/ initCli(CliInputs, {"none", "compile"}, {NoWorkdir})
  \/ initCli(CliInputs, {"run"}, Workdirs)
  \/ InitLibrary

SpecCli == InitCli /\ [][NextCli]_vars

(***************************************************************************)
(* Slice: plan construction.  Steps with several actions and ensures, a    *)
(* macro action, requires, and docs / artifacts that add the verify step.  *)
(***************************************************************************)
cfgNameArgs ==
  [k \in {"name", "cfg"} |-> IF k = "name" THEN StrVal(<<"web">>) ELSE ArrVal(<<<<"a">>>>)]

PlanSteps ==
  {stepOf(<<writeAct(PathOk), macroAct("stack.scaffold", appArgs)>>,
          <<existsEns(PathOk), [tag |-> "cmdOk", cmd |-> CmdOk]>>, <<"I1">>, <<>>),
   [stepOf(<<runAct(CmdOk)>>, <<fuzzyEns("false", TRUE)>>, <<"I1">>, <<>>)
      EXCEPT !.requires = <<"1">>],
   stepOf(<<macroAct("tool.cfg", cfgNameArgs), appendAct(PathReadme)>>,
          <<existsEns(PathReadme)>>, <<"I1">>, <<>>),
   stepOf(<<>>, <<>>, <<"I1">>, <<>>),
   stepOf(<<writeAct(PathOk)>>, <<existsEns(PathOk), [tag |-> "bogus"]>>, <<"I1">>, <<>>)}

PlanInputs ==
  {inputOf([BaseDoc EXCEPT !.invariants = <<"I1">>, !.steps = sl,
                           !.requiredFiles = rf, !.sections = se, !.artifacts = ar],
           StackFull) :
     sl \in stepLists(PlanSteps),
     rf \in {<<>>, <<PathReadme>>},
     se \in {<<>>, <<fuzzySection("true")>>},
     ar \in {<<>>, <<[path |-> PathOk, mustWrite |-> FALSE]>>}}
  \cup {inputOf([DocLegacy EXCEPT !.steps = sl, !.requiredFiles = <<PathReadme>>], StackFull) :
          sl \in stepLists({stepOf(<<>>, <<existsEns(PathOk)>>, <<>>, <<>>)})}

InitPlan == initWith(CoreInputs \cup PlanInputs)

SpecPlan == InitPlan /\ [][Next]_vars

(***************************************************************************)
(* buildDecisionTree on its own: decision lists of up to MaxDecisions      *)
(* records; the parent "Z" is the id of no record.                         *)
(***************************************************************************)
TreeRecords == [id : {"A", "B", "1", "2"}, parent : {"", "A", "B", "1", "Z"}]

TreeInputs == UNION {[1..n -> TreeRecords] : n \in 0..MaxDecisions}

InitTree ==
  /\ input = inputOf(BaseDoc, StackFull)
  /\ pc = "off"
  /\ spec = BaseDoc
  /\ manifest = EmptyManifest
  /\ decisionMap = decisionMapOf(<<>>)
  /\ steps = <<>>
  /\ diagnostics = <<>>
  /\ result = NoResult
  /\ prev = [has |-> FALSE, input |-> input, result |-> NoResult, threw |-> FALSE]
  /\ runtime = RuntimeIdle
  /\ \E ds \in TreeInputs : tree = [TreeIdle EXCEPT !.pc = "start", !.decisions = ds]
  /\ cli = CliIdle

SpecTree == InitTree /\ [][NextTree]_vars

(***************************************************************************)
(* Properties                                                              *)
(***************************************************************************)
codesOf(diags) == [i \in 1..Len(diags) |-> diags[i].code]
hasErrorSeverity(diags) == \E i \in 1..Len(diags) : diags[i].severity = "error"

\* the compile returned after the manifest was accepted
Compiled == pc = "done" /\ manifest.kind = "object"

opsOfSteps(sts) == UNION {Range(sts[i].ops) : i \in 1..Len(sts)}
writeOpsOf(sts) == {op \in opsOfSteps(sts) : op.kind \in {"WRITE_FILE", "APPEND_FILE", "WRITE_TEMPLATE"}}
runOpsOf(sts) == {op \in opsOfSteps(sts) : op.kind = "RUN"}
hasDiag(diags, code, text) ==
  \E i \in 1..Len(diags) : diags[i].code = code /\ diags[i].text = text

\* C1: a returned result has ok = true and a plan exactly when its
\* diagnostics hold no error; with an error it has ok = false and no plan.
C1_AllOrNothing ==
  pc = "done" =>
    /\ (result.ok /\ result.hasPlan) <=> ~hasErrorSeverity(result.diagnostics)
    /\ hasErrorSeverity(result.diagnostics) =>
         (~result.ok /\ ~result.hasPlan /\ result.plan = NoPlan)
    /\ result.hasPlan => result.plan.steps = steps

\* a plan was built in full and then withheld because of accumulated errors
C1_Witness ==
  /\ pc = "done"
  /\ Len(steps) >= 2
  /\ Len(result.diagnostics) >= 2
  /\ ~result.ok /\ ~result.hasPlan

\* C2: a parsed spec whose target is not a key of the registry gets
\* ok = false, first diagnostic E100_UNKNOWN_TARGET, and no plan.
C2_UnknownTarget ==
  (/\ pc = "done"
   /\ input.text.yamlOk
   /\ input.text.doc.lang \in Langs
   /\ input.text.doc.target # ""
   /\ input.text.doc.target \notin DOMAIN input.registry)
  => /\ ~result.ok
     /\ ~result.hasPlan
     /\ Len(result.diagnostics) >= 1
     /\ result.diagnostics[1].code = "E100_UNKNOWN_TARGET"

\* C3: parse/shape failure, then unknown target, then invalid manifest: each
\* returns ok = false with exactly its one diagnostic, and nothing of the
\* later stages (decision map, steps, accumulated diagnostics) exists.
C3_textBad ==
  ~input.text.yamlOk \/ input.text.doc.lang \notin Langs \/ input.text.doc.target = ""
C3_entryKind ==
  IF input.text.doc.target \in DOMAIN input.registry
  THEN input.registry[input.text.doc.target].kind
  ELSE IF input.text.doc.target \in {"constructor", "toString"} THEN "function"
  ELSE "undefined"
C3_entryBad ==
  \/ C3_entryKind # "object"
  \/ Len(input.registry[input.text.doc.target].allowedWriteGlobs) = 0
C5_stepClaims(st) == IF "claims" \in DOMAIN st THEN st.claims ELSE <<>>
C5_ProofsAndClaims ==
  (/\ pc = "done" /\ result.hasPlan
   /\ spec.lang = "webspec/v0.2"
   /\ \E i \in 1..Len(result.plan.steps) : Len(result.plan.steps[i].ops) > 0)
  => /\ \A i \in 1..Len(result.plan.steps) :
          Len(result.plan.steps[i].ops) > 0 =>
            /\ Len(result.plan.steps[i].checks) >= 1
            /\ Len(C5_stepClaims(result.plan.steps[i])) >= 1
     /\ \A k \in 1..Len(spec.invariants) :
          \E i \in 1..Len(result.plan.steps) :
            \E j \in 1..Len(C5_stepClaims(result.plan.steps[i])) :
              C5_stepClaims(result.plan.steps[i])[j] = spec.invariants[k]

\* a plan of two steps with ops that between them claim two invariants
C5_Witness ==
  /\ pc = "done" /\ result.hasPlan
  /\ spec.lang = "webspec/v0.2"
  /\ Len(spec.invariants) = 2
  /\ Len(result.plan.steps) >= 2
  /\ \A i \in 1..2 : Len(result.plan.steps[i].ops) > 0

\* C6 as stated: every write op whose path matches no allowed glob gets
\* E300_WRITE_OUTSIDE for that path and the result is ok = false.
C6_outside(op) ==
  \A i \in 1..Len(manifest.allowedWriteGlobs) : ~isMatch(op.path, manifest.allowedWriteGlobs[i])
C6_isDenied(op) ==
  \E i \in 1..Len(manifest.deniedWriteGlobs) : isMatch(op.path, manifest.deniedWriteGlobs[i])
C7_WritesInPolicy ==
  (pc = "done" /\ result.hasPlan) =>
    \A op \in writeOpsOf(result.plan.steps) :
      /\ \E i \in 1..Len(manifest.allowedWriteGlobs) : isMatch(op.path, manifest.allowedWriteGlobs[i])
      /\ \A i \in 1..Len(manifest.deniedWriteGlobs) : ~isMatch(op.path, manifest.deniedWriteGlobs[i])
      /\ spec.hasWriteScopes =>
           \E i \in 1..Len(spec.writeScopes) : isMatch(op.path, spec.writeScopes[i])

\* an emitted plan with a write op, from a spec that declares write scopes
C7_Witness ==
  /\ pc = "done" /\ result.hasPlan
  /\ spec.hasWriteScopes
  /\ writeOpsOf(result.plan.steps) # {}

\* C8: a RUN op whose leading token is not an allowed prefix gives
\* E310_CMD_NOT_ALLOWED and no plan; every RUN op of an emitted plan has an
\* allowed leading token and no denied substring.
C8_lead(cmd) ==
  LET nonsp == {i \in 1..Len(cmd) : cmd[i] # " "}
  IN IF nonsp = {} THEN <<>>
     ELSE LET a == CHOOSE i \in nonsp : \A j \in nonsp : i <= j
              ends == {j \in a..Len(cmd) : \A k \in a..j : cmd[k] # " "}
              b == CHOOSE j \in ends : \A k \in ends : k <= j
          IN SubSeq(cmd, a, b)
C8_allowed(cmd) == \E i \in 1..Len(manifest.allowPrefixes) : manifest.allowPrefixes[i] = C8_lead(cmd)
C8_denied(cmd) ==
  \E i \in 1..Len(manifest.denySubstrings) :
    \E k \in 0..(Len(cmd) - Len(manifest.denySubstrings[i])) :
      \A n \in 1..Len(manifest.denySubstrings[i]) : cmd[k + n] = manifest.denySubstrings[i][n]
C8_CommandsInPolicy ==
  /\ Compiled =>
       \A op \in runOpsOf(steps) :
         ~C8_allowed(op.cmd) =>
           (hasDiag(result.diagnostics, "E310_CMD_NOT_ALLOWED", C8_lead(op.cmd)) /\ ~result.hasPlan)
  /\ (pc = "done" /\ result.hasPlan) =>
       \A op \in runOpsOf(result.plan.steps) : C8_allowed(op.cmd) /\ ~C8_denied(op.cmd)

\* an emitted plan whose RUN op starts with white space before its token
C8_Witness ==
  /\ pc = "done" /\ result.hasPlan
  /\ \E op \in runOpsOf(result.plan.steps) : op.cmd[1] = " "

\* C9 as stated: every claim of a user step of a v0.2 spec that is not a
\* declared invariant id gets E421_UNKNOWN_CLAIM naming the step, and the
\* result is ok = false without a plan.
C9_unknownClaims ==
  {sc \in UNION {{<<spec.steps[i].id, spec.steps[i].claims[j]>> : j \in 1..Len(spec.steps[i].claims)} :
                   i \in 1..Len(spec.steps)} :
     \A k \in 1..Len(spec.invariants) : spec.invariants[k] # sc[2]}
C9_reported(sc) ==
  \E i \in 1..Len(result.diagnostics) :
    /\ result.diagnostics[i].code = "E421_UNKNOWN_CLAIM"
    /\ result.diagnostics[i].id = sc[1]
    /\ result.diagnostics[i].id2 = sc[2]
C9_Original ==
  (Compiled /\ spec.lang = "webspec/v0.2" /\ Len(spec.steps) > 0) =>
    \A sc \in C9_unknownClaims : C9_reported(sc) /\ ~result.ok /\ ~result.hasPlan

\* C9 amended: that holds when the spec declares an invariant or no user
\* step has ops; with no invariant declared and a user step with ops the
\* compile reports E424_MISSING_INVARIANTS and no E421; ok = false either way.
C9_shortCircuit ==
  /\ Len(spec.invariants) = 0
  /\ \E i \in 1..Len(spec.steps) : Len(steps[i].ops) > 0
C9_UnknownClaim ==
  (Compiled /\ spec.lang = "webspec/v0.2" /\ Len(spec.steps) > 0) =>
    \A sc \in C9_unknownClaims :
      /\ ~result.ok /\ ~result.hasPlan
      /\ ~C9_shortCircuit => C9_reported(sc)
      /\ C9_shortCircuit =>
           /\ \E i \in 1..Len(result.diagnostics) : result.diagnostics[i].code = "E424_MISSING_INVARIANTS"
           /\ \A i \in 1..Len(result.diagnostics) : result.diagnostics[i].code # "E421_UNKNOWN_CLAIM"

\* one declared invariant, and a step that claims a different, undeclared id
C9_Witness ==
  /\ Compiled /\ spec.lang = "webspec/v0.2"
  /\ spec.invariants = <<"I1">>
  /\ <<"1", "IX">> \in C9_unknownClaims
  /\ C9_reported(<<"1", "IX">>)

\* C10: in a successful compile every assumption is verified and has a final
\* decision of its id, every decision a user step names is declared and
\* final, and no decision id occurs twice.
C10_DecisionsSound ==
  (pc = "done" /\ result.ok /\ result.hasPlan) =>
    /\ \A i \in 1..Len(spec.assumptions) :
         /\ spec.assumptions[i].status = "verified"
         /\ \E k \in 1..Len(spec.decisions) :
              spec.decisions[k].id = spec.assumptions[i].id /\ spec.decisions[k].status = "final"
    /\ \A i \in 1..Len(spec.steps) : \A j \in 1..Len(spec.steps[i].decisions) :
         /\ \E k \in 1..Len(spec.decisions) : spec.decisions[k].id = spec.steps[i].decisions[j]
         /\ \A k \in 1..Len(spec.decisions) :
              spec.decisions[k].id = spec.steps[i].decisions[j] => spec.decisions[k].status = "final"
    /\ \A k1, k2 \in 1..Len(spec.decisions) :
         spec.decisions[k1].id = spec.decisions[k2].id => k1 = k2

\* a plan from a spec with an assumption, two decisions and a step naming one
C10_Witness ==
  /\ pc = "done" /\ result.hasPlan
  /\ Len(spec.assumptions) = 1
  /\ Len(spec.decisions) = 2
  /\ \E i \in 1..Len(spec.steps) : Len(spec.steps[i].decisions) >= 1

\* C11: a must-write artifact whose path is the path of no write op of any
\* step gives E460_ARTIFACT_NOT_WRITTEN for that path and no plan; in an
\* emitted plan every must-write artifact path is the path of a write op.
C11_mustWrite == {spec.artifacts[i].path : i \in {k \in 1..Len(spec.artifacts) : spec.artifacts[k].mustWrite}}
C11_ArtifactsWritten ==
  /\ Compiled =>
       \A a \in C11_mustWrite :
         (\A op \in writeOpsOf(steps) : op.path # a) =>
           /\ hasDiag(result.diagnostics, "E460_ARTIFACT_NOT_WRITTEN", a)
           /\ ~result.ok /\ ~result.hasPlan
  /\ (pc = "done" /\ result.hasPlan) =>
       \A a \in C11_mustWrite : \E op \in writeOpsOf(result.plan.steps) : op.path = a

\* two must-write artifacts, one the target of an append op, one never written
C11_Witness ==
  /\ Compiled
  /\ Cardinality(C11_mustWrite) = 2
  /\ \E op \in writeOpsOf(steps) : op.kind = "APPEND_FILE" /\ op.path \in C11_mustWrite
  /\ \E a \in C11_mustWrite : hasDiag(result.diagnostics, "E460_ARTIFACT_NOT_WRITTEN", a)

\* C12: a v0.2 spec without steps gets E902_STEPS_REQUIRED, no synthesized
\* step and no plan; a v0.1 spec without steps gets the synthesized program;
\* a spec with steps gets exactly its own steps, in order, and at most the
\* trailing verify_docs_artifacts step.
C12_synthIds == {"init_ai", "scaffold_web", "setup_ui", "set_routes", "add_routes", "quality_gate"}
C12_StrategyByShape ==
  Compiled =>
    /\ (spec.lang = "webspec/v0.2" /\ Len(spec.steps) = 0) =>
         /\ \E i \in 1..Len(result.diagnostics) : result.diagnostics[i].code = "E902_STEPS_REQUIRED"
         /\ ~result.ok /\ ~result.hasPlan
         /\ \A i \in 1..Len(steps) : steps[i].id = "verify_docs_artifacts"
    /\ (spec.lang = "webspec/v0.1" /\ Len(spec.steps) = 0) =>
         (Len(steps) >= 1 /\ steps[1].id = "init_ai")
    /\ Len(spec.steps) > 0 =>
         /\ Len(steps) \in {Len(spec.steps), Len(spec.steps) + 1}
         /\ \A i \in 1..Len(spec.steps) : steps[i].id = spec.steps[i].id
         /\ Len(steps) > Len(spec.steps) => steps[Len(steps)].id = "verify_docs_artifacts"
    /\ (\E i \in 1..Len(steps) : steps[i].id \in C12_synthIds) =>
         (spec.lang = "webspec/v0.1" /\ Len(spec.steps) = 0)

\* a v0.2 spec without steps whose docs checks still produce the verify step
C12_Witness ==
  /\ Compiled
  /\ spec.lang = "webspec/v0.2" /\ Len(spec.steps) = 0
  /\ Len(steps) = 1
  /\ ~result.hasPlan

\* C13 as stated: every v0.1 spec without steps, with its target in the
\* registry and a valid manifest that has a stack.scaffold macro, compiles
\* with ok = true to a plan holding init_ai, then scaffold_web, whose checks
\* include file.exists on apps/web/package.json.
C13_case ==
  /\ pc \in {"done", "threw"}
  /\ input.text.yamlOk
  /\ input.text.doc.lang = "webspec/v0.1"
  /\ Len(input.text.doc.steps) = 0
  /\ input.text.doc.target \in DOMAIN input.registry
  /\ input.registry[input.text.doc.target].kind = "object"
  /\ Len(input.registry[input.text.doc.target].allowedWriteGlobs) >= 1
  /\ "stack.scaffold" \in DOMAIN input.registry[input.text.doc.target].macros
C13_shape(sts) ==
  /\ Len(sts) >= 2
  /\ sts[1].id = "init_ai"
  /\ sts[2].id = "scaffold_web"
  /\ \E j \in 1..Len(sts[2].checks) :
       /\ sts[2].checks[j].kind = "file.exists"
       /\ sts[2].checks[j].path = <<"apps", "web", "package.json">>
C13_policyOk ==
  /\ \A op \in writeOpsOf(steps) :
       /\ \E i \in 1..Len(manifest.allowedWriteGlobs) : isMatch(op.path, manifest.allowedWriteGlobs[i])
       /\ \A i \in 1..Len(manifest.deniedWriteGlobs) : ~isMatch(op.path, manifest.deniedWriteGlobs[i])
  /\ \A op \in runOpsOf(steps) : C8_allowed(op.cmd) /\ ~C8_denied(op.cmd)
  /\ Len(spec.routes) > 0 =>
       ("stack.set_routes" \in DOMAIN manifest.macros \/ "stack.add_route" \in DOMAIN manifest.macros)
C14_ids == {tree.decisions[i].id : i \in 1..Len(tree.decisions)}
C14_unique ==
  \A i, j \in 1..Len(tree.decisions) : tree.decisions[i].id = tree.decisions[j].id => i = j
C14_parentOf(id) == (CHOOSE d \in Range(tree.decisions) : d.id = id).parent
C14_parentsExist == \A id \in C14_ids : C14_parentOf(id) = "" \/ C14_parentOf(id) \in C14_ids
RECURSIVE C14_up(_, _)
C14_up(id, n) ==
  IF n = 0 \/ C14_parentOf(id) = "" THEN {}
  ELSE {C14_parentOf(id)} \cup C14_up(C14_parentOf(id), n - 1)
C14_cyclic == \E id \in C14_ids : id \in C14_up(id, Len(tree.decisions))
C14_CycleError ==
  (tree.pc \in {"done", "threw"} /\ C14_unique /\ C14_parentsExist /\ C14_cyclic)
    => (tree.pc = "threw" /\ tree.error = "cycle")

\* C15: a returned index has as roots exactly the parentless ids in input
\* order, lists c under p exactly when c's parent is p, lists no child
\* twice, and reaches every node from exactly one root.
C15_inputIds == [i \in 1..Len(tree.decisions) |-> tree.decisions[i].id]
RECURSIVE C15_below(_, _)
C15_below(id, n) ==
  {id} \cup (IF n = 0 THEN {}
             ELSE UNION {C15_below(tree.nodes[id].children[j], n - 1) :
                           j \in 1..Len(tree.nodes[id].children)})
C15_ForestIndex ==
  tree.pc = "done" =>
    /\ tree.roots = SelectSeq(C15_inputIds, LAMBDA id : tree.nodes[id].parent = "")
    /\ \A p, c \in DOMAIN tree.nodes :
         (\E j \in 1..Len(tree.nodes[p].children) : tree.nodes[p].children[j] = c)
           <=> tree.nodes[c].parent = p
    /\ \A p \in DOMAIN tree.nodes : \A j1, j2 \in 1..Len(tree.nodes[p].children) :
         tree.nodes[p].children[j1] = tree.nodes[p].children[j2] => j1 = j2
    /\ \A id \in DOMAIN tree.nodes :
         Cardinality({k \in 1..Len(tree.roots) :
                        id \in C15_below(tree.roots[k], Len(tree.decisions))}) = 1

\* C16: the ops and checks of a run are started in list order (per step its
\* ops, then its checks) with none skipped, whatever the requires fields
\* say, and at most one of them is awaited at a time.
C16_before(p, q) ==
  \/ p.i < q.i
  \/ /\ p.i = q.i
     /\ \/ p.kind = "op" /\ q.kind = "check"
        \/ p.kind = q.kind /\ p.j < q.j
C16_positions ==
  UNION {{[kind |-> "op", i |-> i, j |-> j] : j \in 1..Len(runtime.steps[i].ops)}
         \cup {[kind |-> "check", i |-> i, j |-> j] : j \in 1..Len(runtime.steps[i].checks)} :
         i \in 1..Len(runtime.steps)}
C16_at(a) == [kind |-> runtime.trace[a].kind, i |-> runtime.trace[a].i, j |-> runtime.trace[a].j]
C16_ListOrder ==
  /\ \A a, b \in 1..Len(runtime.trace) : a < b => C16_before(C16_at(a), C16_at(b))
  /\ \A a \in 1..Len(runtime.trace) : \A p \in C16_positions :
       C16_before(p, C16_at(a)) => \E b \in 1..(a - 1) : C16_at(b) = p
  /\ \A a \in 1..Len(runtime.trace) :
       runtime.trace[a].outcome = "pending" => (a = Len(runtime.trace) /\ runtime.pending)
  /\ runtime.status = "done" => \A p \in C16_positions : \E a \in 1..Len(runtime.trace) : C16_at(a) = p

\* a finished run of two steps whose first step requires the second
C16_Witness ==
  /\ runtime.status = "done"
  /\ Len(runtime.steps) = 2
  /\ runtime.steps[1].requires = <<"2">>
  /\ Len(runtime.trace) = 4

\* C17: after a failure the run never moves again (nothing later is
\* started, nothing is retried), and no step of a run, the failing one
\* included, removes an effect that was applied.
C17_FailFast ==
  [][/\ runtime.status = "failed" => runtime' = runtime
     /\ runtime.status = "running" =>
          /\ Len(runtime'.effects) >= Len(runtime.effects)
          /\ SubSeq(runtime'.effects, 1, Len(runtime.effects)) = runtime.effects
          /\ Len(runtime'.trace) >= Len(runtime.trace)
          /\ \A a \in 1..Len(runtime.trace) : C16_at(a) =
               [kind |-> runtime'.trace[a].kind, i |-> runtime'.trace[a].i, j |-> runtime'.trace[a].j]
     /\ (runtime.status = "running" /\ runtime'.status = "failed") =>
          /\ runtime'.effects = runtime.effects
          /\ runtime'.k = runtime.k
          /\ Len(runtime'.trace) <= Len(runtime.trace) + 1]_vars

\* a run that failed at a refused op after a write and before later ops
C17_Witness ==
  /\ runtime.status = "failed"
  /\ Len(runtime.effects) >= 1
  /\ Len(runtime.trace) >= 2
  /\ runtime.trace[Len(runtime.trace)].outcome \in {"rejected", "unknown"}
  /\ Len(runtime.trace) < Cardinality(C16_positions)

\* C18: every file an op wrote or appended has a path that matches an
\* allowed and no denied write glob of the manifest, and every command an
\* op spawned has an allowed leading token and no denied substring; a
\* refused op leaves no effect.
C18_lead(cmd) ==
  LET nonsp == {i \in 1..Len(cmd) : cmd[i] # " "}
  IN IF nonsp = {} THEN <<>>
     ELSE LET a == CHOOSE i \in nonsp : \A j \in nonsp : i <= j
              ends == {j \in a..Len(cmd) : \A n \in a..j : cmd[n] # " "}
              b == CHOOSE j \in ends : \A n \in ends : n <= j
          IN SubSeq(cmd, a, b)
C18_pathOk(path) ==
  /\ \E g \in 1..Len(runtime.stack.allowedWriteGlobs) : isMatch(path, runtime.stack.allowedWriteGlobs[g])
  /\ \A g \in 1..Len(runtime.stack.deniedWriteGlobs) : ~isMatch(path, runtime.stack.deniedWriteGlobs[g])
C18_cmdOk(cmd) ==
  /\ \E g \in 1..Len(runtime.stack.allowPrefixes) : runtime.stack.allowPrefixes[g] = C18_lead(cmd)
  /\ \A g \in 1..Len(runtime.stack.denySubstrings) :
       \A n \in 0..(Len(cmd) - Len(runtime.stack.denySubstrings[g])) :
         SubSeq(cmd, n + 1, n + Len(runtime.stack.denySubstrings[g])) # runtime.stack.denySubstrings[g]
C18_opEffects == SelectSeq(runtime.effects, LAMBDA e : e.by = "op")
C18_RuntimePolicy ==
  /\ \A n \in 1..Len(C18_opEffects) :
       IF C18_opEffects[n].kind = "spawn" THEN C18_cmdOk(C18_opEffects[n].target)
       ELSE C18_pathOk(C18_opEffects[n].target)
  /\ Len(C18_opEffects) <=
       Cardinality({a \in 1..Len(runtime.trace) :
                      runtime.trace[a].kind = "op" /\ runtime.trace[a].outcome \in {"pending", "ok", "failed"}})

\* a hand-written plan stopped at a denied path after an allowed write
C18_Witness ==
  /\ pc = "off"
  /\ runtime.status = "failed"
  /\ Len(C18_opEffects) = 1
  /\ runtime.trace[Len(runtime.trace)].outcome = "rejected"
  /\ runtime.steps[1].ops[Len(runtime.trace)].kind = "WRITE_FILE"
  /\ \E g \in 1..Len(runtime.stack.allowedWriteGlobs) :
       isMatch(runtime.steps[1].ops[Len(runtime.trace)].path, runtime.stack.allowedWriteGlobs[g])

\* C19: for the spec and manifest of a compile, runPlan refuses an op
\* exactly when the compiler's static check reports a diagnostic for it.
C19_SameRules ==
  (manifest.kind = "object" /\ runtime.stack = manifest) =>
    \A a \in 1..Len(runtime.trace) :
      (runtime.trace[a].kind = "op" /\ runtime.trace[a].outcome # "unknown") =>
        ((opDiags(runtime.steps[runtime.trace[a].i].ops[runtime.trace[a].j], spec, manifest,
                  manifest.denySubstrings) # <<>>)
           <=> runtime.trace[a].outcome = "rejected")

\* C20: a fuzzy doc check that scored below its threshold warns and lets the
\* run go on when its gate is false, and fails the run when its gate is
\* absent or true; a score at or above the threshold passes; the gate of an
\* ensure or of a docs section is the gate of the check built from it.
C20_check(a) == runtime.steps[runtime.trace[a].i].checks[runtime.trace[a].j]
C20_scored ==
  {a \in 1..Len(runtime.trace) :
     /\ runtime.trace[a].kind = "check"
     /\ C20_check(a).kind = "doc.contains_fuzzy"
     /\ runtime.trace[a].score >= 0}
C20_sectionGates ==
  Concat([n \in 1..Len(spec.sections) |->
            [f \in 1..Len(spec.sections[n].mustContainFuzzy) |-> spec.sections[n].mustContainFuzzy[f].gate]])
C20_FuzzyGate ==
  /\ \A a \in C20_scored :
       /\ (runtime.trace[a].score < C20_check(a).threshold /\ C20_check(a).gate = "false") =>
            /\ runtime.trace[a].outcome = "warned"
            /\ runtime.status # "failed" \/ a < Len(runtime.trace)
            /\ runtime.k > a
       /\ (runtime.trace[a].score < C20_check(a).threshold /\ C20_check(a).gate \in {"absent", "true"}) =>
            /\ runtime.trace[a].outcome = "failed"
            /\ runtime.status = "failed" /\ a = Len(runtime.trace)
       /\ runtime.trace[a].score >= C20_check(a).threshold => runtime.trace[a].outcome = "ok"
  /\ (pc = "done" /\ manifest.kind = "object") =>
       /\ \A i \in 1..Len(spec.steps) : \A n \in 1..Len(spec.steps[i].ensures) :
            spec.steps[i].ensures[n].tag = "docContainsFuzzy" =>
              /\ steps[i].checks[n].kind = "doc.contains_fuzzy"
              /\ steps[i].checks[n].gate = spec.steps[i].ensures[n].gate
       /\ Len(C20_sectionGates) > 0 =>
            C20_sectionGates =
              [n \in 1..Len(C20_sectionGates) |->
                 SelectSeq(steps[Len(steps)].checks, LAMBDA c : c.kind = "doc.contains_fuzzy")[n].gate]

\* a run that warned at a docs-section check with gate false and went on
C20_Witness ==
  /\ \E a \in C20_scored :
       /\ runtime.trace[a].outcome = "warned"
       /\ a < Len(runtime.trace)
       /\ runtime.steps[runtime.trace[a].i].id = "verify_docs_artifacts"
  /\ runtime.status = "done"

\* C21: in `webspec run`, runPlan is started only after the compile returned
\* ok with a plan; when the compile fails or throws, the process ends with a
\* non-zero status, plan.json and the work directory are left as they were,
\* and no op or check is started.
C21_compileFailed ==
  /\ cli.cmd = "run"
  /\ pc \in {"done", "threw"}
  /\ ~(pc = "done" /\ result.ok /\ result.hasPlan)
C21_HardStop ==
  /\ [](/\ (cli.cmd = "run" /\ runtime # RuntimeIdle) =>
             (pc = "done" /\ result.ok /\ result.hasPlan /\ runtime.steps = result.plan.steps)
        /\ C21_compileFailed =>
             /\ runtime = RuntimeIdle
             /\ cli.did = <<>>
             /\ cli.exited => cli.status # 0)
  /\ [][(C21_compileFailed /\ cli'.invocations = cli.invocations) =>
          /\ cli'.outDir = cli.outDir
          /\ cli'.workdir = cli.workdir
          /\ runtime' = RuntimeIdle
          /\ cli'.exited /\ cli'.status # 0]_vars

\* a second invocation, `webspec run`, whose compile failed: it ended with
\* status 1, the plan.json of the first invocation is still the only output
\* and there is no work directory
C21_Witness ==
  /\ cli.cmd = "run" /\ cli.invocations = 2
  /\ cli.exited /\ cli.status = 1
  /\ pc = "done" /\ ~result.ok /\ Len(result.diagnostics) >= 1
  /\ cli.outDir.plan.exists
  /\ ~cli.workdir.exists
  /\ runtime = RuntimeIdle

C22_runOps ==
  SelectSeq(Concat([i \in 1..Len(steps) |-> steps[i].ops]), LAMBDA op : op.kind = "RUN")
C22_offending ==
  SelectSeq(C22_runOps, LAMBDA op : ~C8_allowed(op.cmd) \/ C8_denied(op.cmd))
C22_cmdDiags ==
  SelectSeq(result.diagnostics,
            LAMBDA d : d.code \in {"E310_CMD_NOT_ALLOWED", "E311_CMD_DENIED_SUBSTRING"})
C23_claimCodes ==
  {"E420_STEP_NO_CLAIMS", "E421_UNKNOWN_CLAIM", "E422_UNCLAIMED_INVARIANT",
   "E424_MISSING_INVARIANTS"}
C23_LegacyExempt ==
  (Compiled /\ input.text.doc.lang = "webspec/v0.1" /\ Len(input.text.doc.steps) > 0) =>
    /\ \A n \in 1..Len(result.diagnostics) : result.diagnostics[n].code \notin C23_claimCodes
    /\ (\A n \in 1..Len(result.diagnostics) : result.diagnostics[n].code \in C23_claimCodes)
         => (result.ok /\ result.hasPlan)

\* C24: E424_MISSING_INVARIANTS is reported exactly for a v0.2 spec with a
\* user step that has ops and with no invariant declared; a compile that
\* reports it reports it once and none of E420, E421, E422, and still
\* reports what the other checks find (here: E400 for each step with ops and
\* no check).
C24_codes == {result.diagnostics[n].code : n \in 1..Len(result.diagnostics)}
C24_case ==
  /\ input.text.doc.lang = "webspec/v0.2"
  /\ Len(input.text.doc.invariants) = 0
  /\ \E i \in 1..Len(input.text.doc.steps) : Len(steps[i].ops) > 0
C25_opKind ==
  [k \in {"run", "writeFile", "appendFile", "writeTemplate"} |->
     CASE k = "run" -> "RUN"
       [] k = "writeFile" -> "WRITE_FILE"
       [] k = "appendFile" -> "APPEND_FILE"
       [] OTHER -> "WRITE_TEMPLATE"]
C25_checkKind ==
  [k \in {"exists", "contains", "routeExists", "cmdOk", "trackedOnly", "docSection",
           "docContains", "docContainsFuzzy", "artifactExists"} |->
     CASE k = "exists" -> "file.exists"
       [] k = "contains" -> "file.contains"
       [] k = "routeExists" -> "route.exists"
       [] k = "cmdOk" -> "cmd.ok"
       [] k = "trackedOnly" -> "git.trackedOnly"
       [] k = "docSection" -> "doc.section"
       [] k = "docContains" -> "doc.contains"
       [] k = "docContainsFuzzy" -> "doc.contains_fuzzy"
       [] OTHER -> "artifact.exists"]
C25_kindsOf(action) ==
  IF action.tag = "macro"
  THEN [n \in 1..Len(manifest.macros[action.name].expandsTo) |->
          C25_opKind[manifest.macros[action.name].expandsTo[n].kind]]
  ELSE IF action.tag = "writeFile" /\ action.template # <<>> THEN <<"WRITE_TEMPLATE">>
  ELSE <<C25_opKind[action.tag]>>
RECURSIVE C25_flat(_)
C25_flat(ss) == IF Len(ss) = 0 THEN <<>> ELSE ss[1] \o C25_flat(SubSeq(ss, 2, Len(ss)))
C25_docChecks ==
  Len(spec.requiredFiles) + Len(spec.artifacts)
  + Len(C25_flat([n \in 1..Len(spec.sections) |->
                    <<spec.sections[n].heading>> \o spec.sections[n].mustContain
                    \o [f \in 1..Len(spec.sections[n].mustContainFuzzy) |->
                          spec.sections[n].mustContainFuzzy[f].text]]))
C26_macroActs ==
  {<<i, a>> \in (1..Len(spec.steps)) \X (1..MaxSteps + 1) :
     /\ a <= Len(spec.steps[i].actions)
     /\ spec.steps[i].actions[a].tag = "macro"}
C26_absent(x) == spec.steps[x[1]].actions[x[2]].name \notin DOMAIN manifest.macros
C26_missing(x) ==
  LET act == spec.steps[x[1]].actions[x[2]]
      declared == manifest.macros[act.name].args
  IN {n \in 1..Len(declared) : declared[n].name \notin DOMAIN act.args}
C26_count(code, id) ==
  Cardinality({n \in 1..Len(diagnostics) : diagnostics[n].code = code /\ diagnostics[n].id = id})
C26_MacroFailures ==
  (manifest.kind = "object" /\ pc \in {"claims", "docs", "effects", "gate", "done", "threw"}
   /\ Len(spec.steps) > 0) =>
    \A x \in C26_macroActs :
      /\ C26_absent(x) =>
           /\ pc # "threw"
           /\ C26_count("E200_UNKNOWN_MACRO", spec.steps[x[1]].actions[x[2]].name) >= 1
           /\ Len(spec.steps[x[1]].actions) = 1 => steps[x[1]].ops = <<>>
           /\ pc = "done" => (~result.ok /\ ~result.hasPlan /\ result.diagnostics = diagnostics)
      /\ (~C26_absent(x) /\ C26_missing(x) # {}) =>
           /\ pc # "threw"
           /\ \A n \in C26_missing(x) :
                C26_count("E201_MISSING_MACRO_ARG",
                          manifest.macros[spec.steps[x[1]].actions[x[2]].name].args[n].name) >= 1
           /\ Len(spec.steps[x[1]].actions) = 1 =>
                Len(steps[x[1]].ops)
                  = Len(manifest.macros[spec.steps[x[1]].actions[x[2]].name].expandsTo)
           /\ pc = "done" => (~result.ok /\ ~result.hasPlan /\ result.diagnostics = diagnostics)

\* C27: every command runPlan has spawned, for a RUN op or for a cmd.ok
\* check, has a leading token among the manifest's allowPrefixes and no
\* denied substring; and a compile whose steps hold a cmd.ok check with a
\* command outside that policy reports E310 or E311 and gives no plan.
C27_checkCmds ==
  UNION {{steps[i].checks[j].cmd :
            j \in {n \in 1..Len(steps[i].checks) : steps[i].checks[n].kind = "cmd.ok"}} :
         i \in 1..Len(steps)}
C27_AllCommandsChecked ==
  /\ \A n \in 1..Len(runtime.effects) :
       runtime.effects[n].kind = "spawn" => C18_cmdOk(runtime.effects[n].target)
  /\ Compiled =>
       \A c \in C27_checkCmds :
         (~C8_allowed(c) \/ C8_denied(c)) =>
           /\ ~result.hasPlan
           /\ \E n \in 1..Len(result.diagnostics) :
                result.diagnostics[n].code \in {"E310_CMD_NOT_ALLOWED", "E311_CMD_DENIED_SUBSTRING"}

\* C28: when the CLI runs the synthesized legacy plan in a work tree with no
\* tracked file under aiDir, the ops of init_ai are writes, which leave the
\* index alone, the allow list of its git.trackedOnly check is not empty,
\* the check fails whenever it is reached, the run never completes, and no
\* op or check of a later step is ever started.
C28_aiDir == IF spec.hasWorkspace THEN spec.aiDir ELSE <<".ai">>
C28_case ==
  /\ cli.cmd = "run"
  /\ runtime.status # "idle"
  /\ spec.lang = "webspec/v0.1" /\ Len(spec.steps) = 0
  /\ \A f \in runtime.cwd.tracked : SubSeq(f, 1, Len(C28_aiDir)) # C28_aiDir
C28_TrackedOnlyAborts ==
  C28_case =>
    /\ runtime.steps[1].id = "init_ai"
    /\ \A j \in 1..Len(runtime.steps[1].ops) :
         runtime.steps[1].ops[j].kind \in {"WRITE_FILE", "APPEND_FILE"}
    /\ \E j \in 1..Len(runtime.steps[1].checks) :
         /\ runtime.steps[1].checks[j].kind = "git.trackedOnly"
         /\ Len(runtime.steps[1].checks[j].allow) >= 1
    /\ runtime.cwd.tracked = cli.workdir.tracked
    /\ runtime.status # "done"
    /\ \A a \in 1..Len(runtime.trace) :
         /\ runtime.trace[a].i = 1
         /\ (/\ runtime.trace[a].kind = "check"
             /\ runtime.steps[1].checks[runtime.trace[a].j].kind = "git.trackedOnly"
             /\ runtime.trace[a].outcome # "pending")
            => (runtime.trace[a].outcome = "failed" /\ runtime.status = "failed")

\* a run in the work directory the CLI has just created and git-initialised:
\* the three writes of init_ai and its file.exists check passed, the
\* git.trackedOnly check failed
C28_Witness ==
  /\ C28_case
  /\ cli.did = <<"plan.json", "mkdir workdir", "git init">>
  /\ runtime.status = "failed"
  /\ Len(runtime.effects) = 3
  /\ Len(runtime.trace) = 5
  /\ runtime.trace[4].outcome = "ok"
  /\ runtime.trace[5].kind = "check" /\ runtime.trace[5].j = 2
  /\ Len(runtime.steps) >= 2

\* C29: after `webspec compile` has been invoked any number of times on the
\* same spec file and output directory, diagnostics.json holds the
\* diagnostics of the last compile, and plan.json exists only if the last
\* compile gave a plan, which it then holds (for compiles that returned).
C29_LatestOnly ==
  (/\ cli.cmd = "compile" /\ cli.exited
   /\ pc = "done"
   /\ \A n \in 1..Len(cli.earlier) : cli.earlier[n] = "compile")
  => /\ cli.outDir.diagnostics.exists
     /\ cli.outDir.diagnostics.content = result.diagnostics
     /\ cli.outDir.plan.exists =>
          (result.ok /\ result.hasPlan /\ cli.outDir.plan.content = result.plan)

\* C30: without effects.writeScopes no write op gets E302_SCOPE_VIOLATION;
\* with effects.writeScopes declared empty every write op that passes the
\* manifest's allowed and denied globs gets E302_SCOPE_VIOLATION, so an
\* emitted plan has no write op; E320_EFFECTS_SCOPE_REQUIRED is reported in
\* either case exactly when expansionPolicy is "explicit".
C30_has(code) == \E n \in 1..Len(result.diagnostics) : result.diagnostics[n].code = code
C30_passesManifest(op) ==
  /\ \E g \in 1..Len(manifest.allowedWriteGlobs) : isMatch(op.path, manifest.allowedWriteGlobs[g])
  /\ \A g \in 1..Len(manifest.deniedWriteGlobs) : ~isMatch(op.path, manifest.deniedWriteGlobs[g])
C30_AbsentVsEmpty ==
  Compiled =>
    /\ ~spec.hasWriteScopes =>
         /\ ~C30_has("E302_SCOPE_VIOLATION")
         /\ C30_has("E320_EFFECTS_SCOPE_REQUIRED") <=> spec.expansionPolicy = "explicit"
    /\ (spec.hasWriteScopes /\ spec.writeScopes = <<>>) =>
         /\ \A op \in writeOpsOf(steps) :
              C30_passesManifest(op) =>
                hasDiag(result.diagnostics, "E302_SCOPE_VIOLATION", op.path)
         /\ result.hasPlan => writeOpsOf(result.plan.steps) = {}
         /\ C30_has("E320_EFFECTS_SCOPE_REQUIRED") <=> spec.expansionPolicy = "explicit"

\* empty scopes under the "inherit" policy: a write inside the manifest's
\* globs is reported as E302, and there is no E320
C30_Witness ==
  /\ Compiled
  /\ spec.hasWriteScopes /\ spec.writeScopes = <<>> /\ spec.expansionPolicy = "inherit"
  /\ \E op \in writeOpsOf(steps) : C30_passesManifest(op)
  /\ C30_has("E302_SCOPE_VIOLATION")
  /\ ~C30_has("E320_EFFECTS_SCOPE_REQUIRED")
  /\ ~result.hasPlan

====
